---- MODULE Spec2Model ----
(***************************************************************************)
(* Model of the connection engine of mx-connect (lib/get-connection.js):   *)
(* the candidate list built from delivery.mx, the sequential try loop over *)
(* it, the per-candidate gates, the connect hook and the TCP attempt with  *)
(* its connect / timeout / error race.                                     *)
(*                                                                         *)
(* One behaviour is one getConnection(delivery) call.  An action is one    *)
(* job of the event loop: the synchronous call, a promise continuation, or *)
(* the handler of one event (hook callback, connect, error, timer).        *)
(***************************************************************************)
EXTENDS Integers, Sequences, FiniteSets, TLC

\* Longest delivery.mx drawn for a call.
MaxMx == 2

\* Longest delivery.mx drawn for a call whose candidates exceed MAX_MX_HOSTS.
MaxHosts == 21

\* const MAX_MX_HOSTS = 20
MAX_MX_HOSTS == 20

\* delivery.port || 25
DefaultPort == 25

(***************************************************************************)
(* Values                                                                  *)
(***************************************************************************)

\* A property that is not set on an object (undefined).
NoCategory == "unset"
Unset == "unset"

\* An IP address string; net.isIPv4 / net.isIPv6 read its family.
Ip4(n) == [family |-> "ipv4", n |-> n]
Ip6(n) == [family |-> "ipv6", n |-> n]
isIPv4(ip) == ip.family = "ipv4"
isIPv6(ip) == ip.family = "ipv6"

\* mx.policyMatch: absent, or the {valid, testing} verdict of validateMxPolicy.
NoPolicyMatch == [present |-> FALSE, valid |-> FALSE, testing |-> FALSE]
PolicyMatch(valid, testing) == [present |-> TRUE, valid |-> valid, testing |-> testing]
PolicyMatches ==
    { NoPolicyMatch, PolicyMatch(TRUE, FALSE), PolicyMatch(FALSE, TRUE), PolicyMatch(FALSE, FALSE) }

\* No error object (null).
NoError ==
    [origin |-> "none", idx |-> 0, category |-> NoCategory, temporary |-> Unset,
     response |-> Unset, code |-> Unset]

\* A host name.  script tells how it is written: in ASCII letters, with
\* non-ASCII letters, or in its xn-- form.
Name(n) == [family |-> "name", n |-> n, script |-> "ascii"]
UnicodeName(n) == [family |-> "name", n |-> n, script |-> "unicode"]

\* A missing exchange.
NoExchange == [family |-> "none", n |-> 0]

\* mx.daneVerifier is not set.
NoVerifier == [present |-> FALSE, tlsaRecords |-> <<>>, verify |-> TRUE]

\* No connection (the call has not resolved).
NoConnection ==
    [socket |-> [kind |-> "none", id |-> 0], idx |-> 0, host |-> Ip4(0),
     hostname |-> NoExchange,
     priority |-> 0, port |-> 0, daneEnabled |-> FALSE, requireTls |-> FALSE,
     daneVerifier |-> NoVerifier, tlsaRecords |-> <<>>, policyMatch |-> NoPolicyMatch]

(***************************************************************************)
(* Inputs of a call                                                        *)
(***************************************************************************)

\* The priorities of the entries of delivery.mx, by position k:
\*   "ascending": 10, 20, 30, ...   "equal": 10, 10, 10, ...
\*   "rotated":   20, 10, 30, ...   (the best entry is listed second)
\*   "descending": 990, 980, 970, ... (the best entry is listed last)
PriorityPatterns == {"ascending", "equal", "rotated"}
Priority(pattern, k) ==
    IF pattern = "equal" THEN 10
    ELSE IF pattern = "rotated" /\ k <= 2 THEN 10 * (3 - k)
    ELSE IF pattern = "descending" THEN 1000 - 10 * k
    ELSE 10 * k

\* The address lists of the k-th entry of delivery.mx, per layout:
\*   "plain": one IPv4 address of its own;
\*   "mixed": the first entry has one IPv4 address, every later entry lists
\*            that same address again and an IPv6 address of its own;
\*   "dual":   one IPv4 and one IPv6 address of its own;
\*   "shared": A lists the first entry's IPv4 address and one of its own,
\*             AAAA lists that own address again and one IPv6 address that
\*             every entry lists;
\*   "bare":   no address at all.
Layouts == {"plain", "mixed"}
AddrA(layout, k) ==
    IF layout = "mixed" THEN <<Ip4(1)>>
    ELSE IF layout = "shared" THEN <<Ip4(1), Ip4(k)>>
    ELSE IF layout = "bare" THEN <<>>
    ELSE <<Ip4(k)>>
AddrAAAA(layout, k) ==
    IF layout = "mixed" /\ k > 1 THEN <<Ip6(k)>>
    ELSE IF layout = "dual" THEN <<Ip6(k)>>
    ELSE IF layout = "shared" THEN <<Ip4(k), Ip6(1)>>
    ELSE <<>>

\* No address (delivery.localAddress and its per-family variants are optional).
NoAddress == [family |-> "none", n |-> 0]

\* delivery.dane: not given, or {enabled, verify}.
NoDane == [present |-> FALSE, enabled |-> FALSE, verify |-> TRUE]
DaneConfig(enabled, verify) == [present |-> TRUE, enabled |-> enabled, verify |-> verify]
DaneConfigs == { NoDane, DaneConfig(FALSE, TRUE), DaneConfig(TRUE, TRUE), DaneConfig(TRUE, FALSE) }

\* The k-th entry of delivery.mx.
MxEntry(layout, k, priority, policyMatch, daneLookupFailed) ==
    [exchange |-> Name(k), priority |-> priority, mx |-> TRUE,
     A |-> AddrA(layout, k), AAAA |-> AddrAAAA(layout, k),
     policyMatch |-> policyMatch, tlsaRecords |-> <<>>,
     daneLookupFailed |-> daneLookupFailed]

\* The gate inputs of an entry: its policyMatch and its daneLookupFailed flag.
\* Every policyMatch occurs, and a failed TLSA lookup occurs on an entry the
\* policy accepts and on one it refuses.
GateInput(policyMatch, daneLookupFailed) ==
    [policyMatch |-> policyMatch, daneLookupFailed |-> daneLookupFailed]
GateInputs ==
    { GateInput(NoPolicyMatch, FALSE), GateInput(PolicyMatch(TRUE, FALSE), TRUE),
      GateInput(PolicyMatch(FALSE, TRUE), FALSE), GateInput(PolicyMatch(FALSE, FALSE), FALSE),
      GateInput(PolicyMatch(FALSE, FALSE), TRUE) }

\* Every delivery.mx of up to MaxMx entries in the given layout and pattern.
MxLists(layout, pattern) ==
    UNION { { [k \in 1..n |-> MxEntry(layout, k, Priority(pattern, k), g[k].policyMatch,
                                       g[k].daneLookupFailed)] :
              g \in [1..n -> GateInputs] } : n \in 0..MaxMx }

\* The delivery objects a call is made with.
Deliveries ==
    { [mx |-> mx, ignoreMXHosts |-> {}, mxLastError |-> NoError,
       dnsOptions |-> [preferIPv6 |-> FALSE], port |-> DefaultPort,
       dane |-> dane, connectHook |-> hook, connectError |-> TRUE,
       localAddress |-> NoAddress, localAddressIPv4 |-> NoAddress,
       localAddressIPv6 |-> NoAddress] :
      mx \in UNION { MxLists(l, p) : l \in Layouts, p \in PriorityPatterns }, dane \in DaneConfigs, hook \in BOOLEAN }

\* The environment's socket error objects carry no category, or one of their own.
ErrorCategories == {NoCategory, "custom"}

\* No promise chain: getConnection is called on its own.
NoChain ==
    [options |-> [target |-> [family |-> "none", n |-> 0], mx |-> <<>>, ignoreIPv6 |-> FALSE,
                  mtaSts |-> FALSE, dane |-> FALSE, connectHook |-> FALSE,
                  blockLocalAddresses |-> FALSE, port |-> 0, daneVerify |-> TRUE],
     steps |-> <<>>, step |-> 0, state |-> "none", started |-> <<>>, lookups |-> <<>>,
     pending |-> {}, answers |-> {}, error |-> NoError,
     verifier |-> [tlsaRecords |-> <<>>, options |-> [verify |-> TRUE, logger |-> FALSE]],
     tls |-> <<>>, calls |-> <<>>, callback |-> FALSE, callbacks |-> <<>>,
     cancelled |-> FALSE, localAddress |-> NoAddress, verifications |-> <<>>,
     mxLastError |-> NoError]

VARIABLES
    delivery,   \* the delivery object handed to getConnection
    mxHosts,    \* the sorted, capped candidate list
    pc,         \* "init" | "next" | "hook" | "tcp" | "done"
    index,      \* tryNextMX's index (1-based)
    firstError, \* tryNextMX's firstError
    sockets,    \* the sockets opened by net.connect, in creation order
    log,        \* the externally visible calls, in order
    failures,   \* the result of every failed tryConnect, in order
    hookReplies,\* what the connect hook called back with, per invocation
    result,     \* the settlement of the promise getConnection returned
    chain       \* the promise chain of mxConnect: its stages and where it stands,
                \* the cache and fetcher calls made, the callback invocations,
                \* whether the caller has asked to cancel,
                \* the localAddress option as the caller gave it,
                \* the mxLastError option as the caller gave it,
                \* the calls made to dane.verifyCertAgainstTlsa,
                \* a DANE verifier and the calls the TLS layer made to it

vars ==
    <<delivery, mxHosts, pc, index, firstError, sockets, log, failures, hookReplies, result,
      chain>>

(***************************************************************************)
(* buildMxHostList, sort and cap                                           *)
(***************************************************************************)

\* { ...baseEntry, ipv4: true, host: ip } / { ...baseEntry, ipv6: true, host: ip }.
\* The flag of the other family is not set on the entry (FALSE stands for undefined).
HostEntry(mx, ip, v6) ==
    [hostname |-> mx.exchange, priority |-> mx.priority, isMX |-> mx.mx,
     policyMatch |-> mx.policyMatch, tlsaRecords |-> mx.tlsaRecords,
     daneLookupFailed |-> mx.daneLookupFailed,
     ipv4 |-> ~v6, ipv6 |-> v6, host |-> ip,
     \* set by tryConnect / populateMxFromSocket; not set on a fresh entry
     port |-> 0, daneEnabled |-> FALSE, requireTls |-> FALSE, daneVerifier |-> NoVerifier,
     socket |-> [kind |-> "none", id |-> 0]]

\* AddAddresses without the mxHostsSeen test: every listed address is pushed.
AddAddressesNoDedup(acc, mx, list, v6) ==
    [hosts |-> acc.hosts \o [k \in 1..Len(list) |-> HostEntry(mx, list[k], v6)],
     seen |-> acc.seen \cup { list[k] : k \in 1..Len(list) }]

\* for (const ip of list) if (!mxHostsSeen.has(ip)) { mxHostsSeen.add(ip); mxHosts.push(...) }
\* acc is [hosts, seen].
RECURSIVE AddAddresses(_, _, _, _)
AddAddresses(acc, mx, list, v6) ==
    IF list = <<>> THEN acc
    ELSE LET ip == Head(list)
             nxt == IF ip \in acc.seen THEN acc
                    ELSE [hosts |-> Append(acc.hosts, HostEntry(mx, ip, v6)),
                          seen |-> acc.seen \cup {ip}]
         IN AddAddresses(nxt, mx, Tail(list), v6)

\* for (const mx of delivery.mx): the A addresses, then the AAAA addresses.
RECURSIVE FlattenMx(_, _)
FlattenMx(acc, mxs) ==
    IF mxs = <<>> THEN acc
    ELSE LET mx == Head(mxs)
             afterA == AddAddresses(acc, mx, mx.A, FALSE)
         IN FlattenMx(AddAddresses(afterA, mx, mx.AAAA, TRUE), Tail(mxs))

\* FilterIgnored that drops nothing.
FilterIgnoredNone(hosts, ignored) == hosts

\* mxHosts.filter(mx => !delivery.ignoreMXHosts.includes(mx.host))
FilterIgnored(hosts, ignored) ==
    SelectSeq(hosts, LAMBDA h : h.host \notin ignored)

\* buildMxHostList(delivery): {mxHosts, mxHostsSeen}
buildMxHostList(d) ==
    LET flat == FlattenMx([hosts |-> <<>>, seen |-> {}], d.mx)
    IN IF d.ignoreMXHosts # {}
       THEN [mxHosts |-> FilterIgnored(flat.hosts, d.ignoreMXHosts), mxHostsSeen |-> flat.seen]
       ELSE [mxHosts |-> flat.hosts, mxHostsSeen |-> flat.seen]

\* A JavaScript number that may be NaN.
NaN == [nan |-> TRUE, n |-> 0]
Num(n) == [nan |-> FALSE, n |-> n]
\* ToNumber of a flag that is either true or not set: true -> 1, undefined -> NaN.
FlagToNumber(flag) == IF flag THEN Num(1) ELSE NaN
\* x - y on numbers.
NumSub(x, y) == IF x.nan \/ y.nan THEN NaN ELSE Num(x.n - y.n)

\* SortCompare without the priority difference: every pair compares equal.
SortCompareNoPriority(a, b, preferIPv6) == 0

\* The comparator handed to Array.prototype.sort; sort reads a NaN result as +0.
SortCompare(a, b, preferIPv6) ==
    LET priorityDiff == a.priority - b.priority
        v == IF priorityDiff # 0 THEN Num(priorityDiff)
             ELSE IF preferIPv6 THEN NumSub(FlagToNumber(b.ipv6), FlagToNumber(a.ipv6))
             ELSE Num(0)
    IN IF v.nan THEN 0 ELSE v.n

\* Array.prototype.sort is stable: an element moves left only past elements
\* that compare greater.
RECURSIVE InsertSorted(_, _, _)
InsertSorted(s, x, preferIPv6) ==
    IF s = <<>> THEN <<x>>
    ELSE IF SortCompare(s[Len(s)], x, preferIPv6) > 0
         THEN Append(InsertSorted(SubSeq(s, 1, Len(s) - 1), x, preferIPv6), s[Len(s)])
         ELSE Append(s, x)

RECURSIVE SortHosts(_, _)
SortHosts(s, preferIPv6) ==
    IF s = <<>> THEN <<>>
    ELSE InsertSorted(SortHosts(SubSeq(s, 1, Len(s) - 1), preferIPv6), s[Len(s)], preferIPv6)

\* CapHosts without the slice.
CapHostsNoSlice(s) == s

\* sortedHosts.length > MAX_MX_HOSTS ? sortedHosts.slice(0, MAX_MX_HOSTS) : sortedHosts
CapHosts(s) == IF Len(s) > MAX_MX_HOSTS THEN SubSeq(s, 1, MAX_MX_HOSTS) ELSE s

\* The candidate list getConnection hands to tryNextMX.
CandidateList(d) ==
    CapHosts(SortHosts(buildMxHostList(d).mxHosts, d.dnsOptions.preferIPv6))

\* EmptyListError that marks every error temporary.
EmptyListErrorAlwaysTemporary(d) ==
    IF buildMxHostList(d).mxHostsSeen # {}
    THEN LET error == IF d.mxLastError # NoError THEN d.mxLastError
                      ELSE [NoError EXCEPT !.origin = "no-hosts-left"]
         IN [error EXCEPT
                !.response = IF @ # Unset THEN @ ELSE "Network error",
                !.category = IF error.category # NoCategory THEN error.category ELSE "network",
                !.temporary = "true"]
    ELSE [NoError EXCEPT !.origin = "no-mx", !.response = "DNS Error", !.category = "dns"]

\* The error getConnection rejects with when the candidate list is empty.
EmptyListError(d) ==
    IF buildMxHostList(d).mxHostsSeen # {}
    THEN LET error == IF d.mxLastError # NoError THEN d.mxLastError
                      ELSE [NoError EXCEPT !.origin = "no-hosts-left"]
         IN [error EXCEPT
                !.response = IF @ # Unset THEN @ ELSE "Network error",
                !.category = IF error.category # NoCategory THEN error.category ELSE "network",
                !.temporary = IF error.temporary # "false" THEN "true" ELSE "false"]
    ELSE [NoError EXCEPT !.origin = "no-mx", !.response = "DNS Error", !.category = "dns"]

(***************************************************************************)
(* tryConnect and tryNextMX                                                *)
(***************************************************************************)

\* updateLocalAddressForTarget(delivery, mx): the new delivery.localAddress.
updateLocalAddressForTarget(d, mx) ==
    LET needsUpdate ==
            \/ d.localAddress = NoAddress
            \/ (isIPv6(mx.host) /\ ~isIPv6(d.localAddress))
            \/ (isIPv4(mx.host) /\ ~isIPv4(d.localAddress))
    IN IF ~needsUpdate THEN d.localAddress
       ELSE IF isIPv6(mx.host) THEN d.localAddressIPv6 ELSE d.localAddressIPv4

\* options = {port, host, localAddress}; localAddress is left out when it is the target.
ConnectOptions(d, mx, localAddress) ==
    [port |-> d.port, host |-> mx.host,
     localAddress |-> IF localAddress # mx.host THEN localAddress ELSE NoAddress]

\* One entry of the log: a call the engine makes to the outside.
LogEntry(ev, i, options) ==
    [ev |-> ev, idx |-> i, host |-> options.host, localAddress |-> options.localAddress]

\* emitConnectError that never calls delivery.connectError.
emitConnectErrorNever(d, lg, i, options) == lg

\* emitConnectError(err): delivery.connectError(err, delivery, options), if it is a function.
emitConnectError(d, lg, i, options) ==
    IF d.connectError THEN Append(lg, LogEntry("connectError", i, options)) ELSE lg

\* PolicyBlocks without the testing flag: every invalid match is rejected.
PolicyBlocksIgnoringTesting(mx) ==
    mx.policyMatch.present /\ ~mx.policyMatch.valid

\* checkMtaStsPolicy(delivery, mx, emitConnectError) rejects the candidate.
PolicyBlocks(mx) ==
    mx.policyMatch.present /\ ~mx.policyMatch.valid /\ ~mx.policyMatch.testing

\* DaneBlocks without the verify switch.
DaneBlocksIgnoringVerify(d, mx) ==
    d.dane.present /\ d.dane.enabled /\ mx.daneLookupFailed

\* The DANE-lookup gate of tryConnect rejects the candidate.
DaneBlocks(d, mx) ==
    d.dane.present /\ d.dane.enabled /\ mx.daneLookupFailed /\ d.dane.verify # FALSE

PolicyError(i) ==
    [origin |-> "policy", idx |-> i, category |-> "policy", temporary |-> Unset,
     response |-> "Policy error", code |-> Unset]
DaneError(i) ==
    [origin |-> "dane", idx |-> i, category |-> "dane", temporary |-> "true",
     response |-> "DANE error", code |-> Unset]

\* DaneActive without the test for TLSA records.
DaneActiveWithoutRecords(d, mx) ==
    d.dane.present /\ d.dane.enabled

\* DANE verification is set up on the candidate.
DaneActive(d, mx) ==
    d.dane.present /\ d.dane.enabled /\ Len(mx.tlsaRecords) > 0

\* mx.daneVerifier = createDaneVerifier(mx.tlsaRecords, delivery.dane): the
\* verifier function, by the records and the verify option it closes over.
DaneVerifier(d, mx) ==
    [present |-> TRUE, tlsaRecords |-> mx.tlsaRecords, verify |-> d.dane.verify]

\* The candidate as tryConnect leaves it before the hook is called.
PreparedHost(d, mx) ==
    [mx EXCEPT !.port = d.port,
               !.daneVerifier = IF DaneActive(d, mx) THEN DaneVerifier(d, mx) ELSE @,
               !.daneEnabled = IF DaneActive(d, mx) THEN TRUE ELSE @,
               !.requireTls = IF DaneActive(d, mx) THEN TRUE ELSE @]

\* The socket net.connect(options, ...) returns, with the closure state of
\* connectWithTimeout: settled, the timer, and the outcome the promise settled with.
NewSocket(i) ==
    [idx |-> i, settled |-> FALSE, outcome |-> "pending", timer |-> "armed",
     destroyed |-> FALSE, connectFired |-> FALSE]

\* connectWithTimeout(options, delivery.maxConnectTime) is called for candidate i.
OpenSocket(i, options, lg) ==
    /\ sockets' = Append(sockets, NewSocket(i))
    /\ log' = Append(lg, LogEntry("connect", i, options))
    /\ pc' = "tcp"

\* {success: false, error, fatal}: the result of a failed tryConnect on
\* candidate i; raised is the error as it was before tryConnect enhanced it.
Failure(i, error, fatal, raised) ==
    [idx |-> i, error |-> error, fatal |-> fatal, raised |-> raised]

\* RetryableFailure with the latest error kept instead of the first one.
RetryableFailureLastWins(i, fe, error, raised) ==
    /\ failures' = Append(failures, Failure(i, error, FALSE, raised))
    /\ firstError' = error
    /\ index' = i + 1
    /\ pc' = "next"

\* tryNextMX continues with index + 1 after a retryable failure of candidate i:
\* tryNextMX(delivery, mxHosts, index + 1, firstError || result.error).
RetryableFailure(i, fe, error, raised) ==
    /\ failures' = Append(failures, Failure(i, error, FALSE, raised))
    /\ firstError' = IF fe # NoError THEN fe ELSE error
    /\ index' = i + 1
    /\ pc' = "next"

\* The promise of getConnection rejects.
Reject(error) ==
    /\ result' = [status |-> "rejected", error |-> error, connection |-> NoConnection]
    /\ pc' = "done"

\* socket.remoteAddress: the target for a socket net.connect opened, an
\* address of its own for a socket the hook supplied.
RemoteAddress(mx, socket) ==
    IF socket.kind = "tcp" THEN mx.host ELSE [family |-> "remote", n |-> socket.id]

\* Hostname taken from the socket whatever the candidate carries.
HostnameFromSocket(mx, socket) == RemoteAddress(mx, socket)

\* mx.hostname = mx.hostname || socket.remoteAddress
Hostname(mx, socket) ==
    IF mx.hostname # NoExchange THEN mx.hostname ELSE RemoteAddress(mx, socket)

\* populateMxFromSocket and the connection object the promise resolves with.
Connection(mx, i, socket) ==
    [socket |-> socket, idx |-> i, host |-> mx.host, hostname |-> Hostname(mx, socket),
     priority |-> mx.priority, port |-> mx.port, daneEnabled |-> mx.daneEnabled,
     daneVerifier |-> mx.daneVerifier,
     requireTls |-> mx.requireTls, tlsaRecords |-> mx.tlsaRecords,
     policyMatch |-> mx.policyMatch]

Resolve(i, socket) ==
    /\ mxHosts' = [mxHosts EXCEPT ![i].socket = socket,
                                  ![i].hostname = Hostname(mxHosts[i], socket)]
    /\ result' = [status |-> "resolved", error |-> NoError,
                  connection |-> Connection(mxHosts[i], i, socket)]
    /\ pc' = "done"

\* tryNextMX(delivery, hosts, i, fe), up to the point where tryConnect waits
\* for the hook or for the socket.  hosts is the candidate list as it is before
\* the call; the action sets every variable but delivery.mx.
tryNextMX(hosts, i, fe) ==
    IF i > Len(hosts)
    THEN LET error == IF fe # NoError THEN fe ELSE [NoError EXCEPT !.origin = "unable"]
         IN /\ Reject([error EXCEPT !.response = IF @ # Unset THEN @ ELSE "Network error",
                                  !.category = IF @ # NoCategory THEN @ ELSE "network"])
            /\ mxHosts' = hosts
            /\ UNCHANGED <<delivery, index, firstError, sockets, log, failures, hookReplies>>
    ELSE LET mx == hosts[i]
             localAddress == updateLocalAddressForTarget(delivery, mx)
             options == ConnectOptions(delivery, mx, localAddress)
             withPort == [hosts EXCEPT ![i].port = delivery.port]
         IN /\ delivery' = [delivery EXCEPT !.localAddress = localAddress]
            /\ IF PolicyBlocks(mx)
               THEN /\ RetryableFailure(i, fe, PolicyError(i), PolicyError(i))
                    /\ log' = emitConnectError(delivery, log, i, options)
                    /\ mxHosts' = withPort
                    /\ UNCHANGED <<sockets, hookReplies, result>>
               ELSE IF DaneBlocks(delivery, mx)
               THEN /\ RetryableFailure(i, fe, DaneError(i), DaneError(i))
                    /\ log' = emitConnectError(delivery, log, i, options)
                    /\ mxHosts' = withPort
                    /\ UNCHANGED <<sockets, hookReplies, result>>
               ELSE /\ mxHosts' = [hosts EXCEPT ![i] = PreparedHost(delivery, mx)]
                    /\ index' = i
                    /\ firstError' = fe
                    /\ UNCHANGED <<failures, hookReplies, result>>
                    /\ IF delivery.connectHook
                       THEN /\ log' = Append(log, LogEntry("hook", i, options))
                            /\ pc' = "hook"
                            /\ UNCHANGED sockets
                       ELSE OpenSocket(i, options, log)

\* The options object of the attempt on candidate i, as tryConnect built it.
CurrentOptions(i) == ConnectOptions(delivery, mxHosts[i], delivery.localAddress)

\* TryConnectCatch with the hookPhase flag ignored: every error is retryable.
TryConnectCatchAllRetryable(i, hookPhase, err) ==
    LET error == [err EXCEPT !.response = IF @ # Unset THEN @ ELSE "Network error",
                             !.category = IF @ # NoCategory THEN @ ELSE "network",
                             !.temporary = "true"]
    IN /\ RetryableFailure(i, firstError, error, err)
       /\ log' = emitConnectError(delivery, log, i, CurrentOptions(i))
       /\ UNCHANGED result

\* TryConnectCatch with the hookPhase flag ignored: every error is fatal.
TryConnectCatchAllFatal(i, hookPhase, err) ==
    /\ failures' = Append(failures, Failure(i, err, TRUE, err))
    /\ Reject(err)
    /\ UNCHANGED <<index, firstError, log>>

\* The .catch of tryConnect for candidate i, and what tryNextMX does with the
\* result.  In the hook phase the error is fatal and the call rejects with it;
\* in the socket phase it is enhanced, reported to connectError, and the
\* candidate fails as retryable.
TryConnectCatch(i, hookPhase, err) ==
    IF hookPhase
    THEN /\ failures' = Append(failures, Failure(i, err, TRUE, err))
         /\ Reject(err)
         /\ UNCHANGED <<index, firstError, log>>
    ELSE LET error == [err EXCEPT !.response = IF @ # Unset THEN @ ELSE "Network error",
                                  !.category = IF @ # NoCategory THEN @ ELSE "network",
                                  !.temporary = "true"]
         IN /\ RetryableFailure(i, firstError, error, err)
            /\ log' = emitConnectError(delivery, log, i, CurrentOptions(i))
            /\ UNCHANGED result

(***************************************************************************)
(* Actions                                                                 *)
(***************************************************************************)

Init ==
    /\ delivery \in Deliveries
    /\ mxHosts = <<>>
    /\ pc = "init"
    /\ index = 0
    /\ firstError = NoError
    /\ sockets = <<>>
    /\ log = <<>>
    /\ failures = <<>>
    /\ hookReplies = <<>>
    /\ result = [status |-> "pending", error |-> NoError, connection |-> NoConnection]
    /\ chain = NoChain

\* The delivery after getConnection found its list empty: the error it
\* rejects with is delivery.mxLastError itself when there is one, so the
\* response, category and temporary it sets are set on that object.
AfterEmptyList(d) ==
    IF buildMxHostList(d).mxHostsSeen # {} /\ d.mxLastError # NoError
    THEN [d EXCEPT !.mxLastError = EmptyListError(d)]
    ELSE d

\* getConnection(delivery): build, sort and cap the list; reject when it is
\* empty, else start with tryNextMX(delivery, mxHosts, 0, null).
GetConnection ==
    /\ pc = "init"
    /\ chain' = IF chain.state = "none" THEN chain
                ELSE [chain EXCEPT !.started = Append(@, "getConnection"), !.state = "running"]
    /\ LET hosts == CandidateList(delivery)
       IN IF hosts = <<>>
          THEN /\ Reject(EmptyListError(delivery))
               /\ delivery' = AfterEmptyList(delivery)
               /\ mxHosts' = hosts
               /\ UNCHANGED <<index, firstError, sockets, log, failures, hookReplies>>
          ELSE tryNextMX(hosts, 1, NoError)

\* The continuation of tryNextMX after a retryable failure:
\* tryNextMX(delivery, mxHosts, index + 1, firstError || result.error).
NextMX ==
    /\ pc = "next"
    /\ UNCHANGED chain
    /\ tryNextMX(mxHosts, index, firstError)

\* HookDone without the options.socket branch: a TCP connect follows every
\* hook call that completes without an error.
HookDoneIgnoresSocket(err, setSocket) ==
    /\ pc = "hook"
    /\ UNCHANGED chain
    /\ hookReplies' = Append(hookReplies, [idx |-> index, err |-> err, socket |-> setSocket])
    /\ IF err # NoError
       THEN /\ TryConnectCatch(index, TRUE, err)
            /\ UNCHANGED <<delivery, mxHosts, sockets>>
       ELSE /\ OpenSocket(index, CurrentOptions(index), log)
            /\ UNCHANGED <<delivery, mxHosts, index, firstError, failures, result>>

\* HookDone that goes on to the TCP connect whatever the hook called back with.
HookDoneConnectsAnyway(err, setSocket) ==
    /\ pc = "hook"
    /\ UNCHANGED chain
    /\ hookReplies' = Append(hookReplies, [idx |-> index, err |-> err, socket |-> setSocket])
    /\ OpenSocket(index, CurrentOptions(index), log)
    /\ UNCHANGED <<delivery, mxHosts, index, firstError, failures, result>>

\* The connect hook calls back, with or without an error, having set
\* options.socket or not.
HookDone(err, setSocket) ==
    /\ pc = "hook"
    /\ UNCHANGED chain
    /\ hookReplies' = Append(hookReplies, [idx |-> index, err |-> err, socket |-> setSocket])
    /\ IF err # NoError
       THEN /\ TryConnectCatch(index, TRUE, err)
            /\ UNCHANGED <<delivery, mxHosts, sockets>>
       ELSE IF setSocket
       THEN /\ Resolve(index, [kind |-> "hook", id |-> index])
            /\ UNCHANGED <<delivery, index, firstError, sockets, log, failures>>
       ELSE /\ OpenSocket(index, CurrentOptions(index), log)
            /\ UNCHANGED <<delivery, mxHosts, index, firstError, failures, result>>

\* settle without its guard: every call settles.
SettlesAlways(s) == TRUE

\* settle(handler, value) on socket s runs its handler: if (settled) return.
Settles(s) == ~sockets[s].settled

\* settle without clearTimeout(timeout): the timer stays as it was.
SettledKeepsTimer(s, outcome) ==
    IF Settles(s)
    THEN [sockets[s] EXCEPT !.settled = TRUE, !.outcome = outcome]
    ELSE sockets[s]

\* Socket s and the closure state of its attempt after settle(..) was called
\* with the given outcome: settled = true; clearTimeout(timeout).
Settled(s, outcome) ==
    IF Settles(s)
    THEN [sockets[s] EXCEPT !.settled = TRUE, !.outcome = outcome,
                            !.timer = IF @ = "armed" THEN "cleared" ELSE @]
    ELSE sockets[s]

\* The error the timer callback creates.
TimeoutError(i) ==
    [origin |-> "timeout", idx |-> i, category |-> "network", temporary |-> "true",
     response |-> "Network error", code |-> Unset]

\* An error object socket s emits.
SocketErrorObject(i, category) ==
    [origin |-> "socket", idx |-> i, category |-> category, temporary |-> Unset,
     response |-> Unset, code |-> "ECONNREFUSED"]

\* The connect callback of net.connect fires on socket s:
\* if (settled) return socket.destroy(); settle(resolve, socket).
SocketConnect(s) ==
    /\ pc # "init" /\ pc # "next"
    /\ UNCHANGED chain
    /\ s \in 1..Len(sockets)
    /\ ~sockets[s].connectFired
    /\ IF sockets[s].settled
       THEN /\ sockets' = [sockets EXCEPT ![s].connectFired = TRUE, ![s].destroyed = TRUE]
            /\ UNCHANGED <<delivery, mxHosts, pc, index, firstError, log, failures,
                           hookReplies, result>>
       ELSE /\ sockets' = [sockets EXCEPT
                              ![s] = [Settled(s, "connected") EXCEPT !.connectFired = TRUE]]
            /\ Resolve(sockets[s].idx, [kind |-> "tcp", id |-> s])
            /\ UNCHANGED <<delivery, index, firstError, log, failures, hookReplies>>

\* SocketTimeout without socket.destroy().
SocketTimeoutNoDestroy(s) ==
    /\ pc # "init" /\ pc # "next"
    /\ UNCHANGED chain
    /\ s \in 1..Len(sockets)
    /\ sockets[s].timer = "armed"
    /\ sockets' = [sockets EXCEPT ![s] = [Settled(s, "timeout") EXCEPT !.timer = "fired"]]
    /\ IF Settles(s)
       THEN /\ TryConnectCatch(sockets[s].idx, FALSE, TimeoutError(sockets[s].idx))
            /\ UNCHANGED <<delivery, mxHosts, hookReplies>>
       ELSE UNCHANGED <<delivery, mxHosts, pc, index, firstError, log, failures,
                        hookReplies, result>>

\* SocketTimeout without settle(reject, err): the timer only destroys the socket.
SocketTimeoutWithoutSettle(s) ==
    /\ pc # "init" /\ pc # "next"
    /\ s \in 1..Len(sockets)
    /\ sockets[s].timer = "armed"
    /\ sockets' = [sockets EXCEPT ![s].timer = "fired", ![s].destroyed = TRUE]
    /\ UNCHANGED <<delivery, mxHosts, pc, index, firstError, log, failures,
                   hookReplies, result, chain>>

\* The maxConnectTime timer of the attempt on socket s fires:
\* socket.destroy(), then settle(reject, err).
SocketTimeout(s) ==
    /\ pc # "init" /\ pc # "next"
    /\ UNCHANGED chain
    /\ s \in 1..Len(sockets)
    /\ sockets[s].timer = "armed"
    /\ sockets' = [sockets EXCEPT ![s] = [Settled(s, "timeout") EXCEPT
                                             !.timer = "fired", !.destroyed = TRUE]]
    /\ IF Settles(s)
       THEN /\ TryConnectCatch(sockets[s].idx, FALSE, TimeoutError(sockets[s].idx))
            /\ UNCHANGED <<delivery, mxHosts, hookReplies>>
       ELSE UNCHANGED <<delivery, mxHosts, pc, index, firstError, log, failures,
                        hookReplies, result>>

\* SocketError without socket.destroy().
SocketErrorNoDestroy(s, category) ==
    /\ pc # "init" /\ pc # "next"
    /\ UNCHANGED chain
    /\ s \in 1..Len(sockets)
    /\ sockets' = [sockets EXCEPT ![s] = Settled(s, "error")]
    /\ IF Settles(s)
       THEN /\ TryConnectCatch(sockets[s].idx, FALSE, SocketErrorObject(sockets[s].idx, category))
            /\ UNCHANGED <<delivery, mxHosts, hookReplies>>
       ELSE UNCHANGED <<delivery, mxHosts, pc, index, firstError, log, failures,
                        hookReplies, result>>

\* Socket s emits 'error': socket.destroy(), then settle(reject, err).
SocketError(s, category) ==
    /\ pc # "init" /\ pc # "next"
    /\ UNCHANGED chain
    /\ s \in 1..Len(sockets)
    /\ sockets' = [sockets EXCEPT ![s] = [Settled(s, "error") EXCEPT !.destroyed = TRUE]]
    /\ IF Settles(s)
       THEN /\ TryConnectCatch(sockets[s].idx, FALSE, SocketErrorObject(sockets[s].idx, category))
            /\ UNCHANGED <<delivery, mxHosts, hookReplies>>
       ELSE UNCHANGED <<delivery, mxHosts, pc, index, firstError, log, failures,
                        hookReplies, result>>

\* The error objects a connect hook may call back with.
HookErrors(i) ==
    { [origin |-> "hook", idx |-> i, category |-> c, temporary |-> Unset, response |-> Unset,
        code |-> Unset] :
      c \in ErrorCategories }

Next ==
    \/ GetConnection
    \/ NextMX
    \/ \E err \in HookErrors(index) \cup {NoError}, setSocket \in BOOLEAN : HookDone(err, setSocket)
    \/ \E s \in 1..Len(sockets) : SocketConnect(s)
    \/ \E s \in 1..Len(sockets) : SocketTimeout(s)
    \/ \E s \in 1..Len(sockets), c \in ErrorCategories : SocketError(s, c)

Spec == Init /\ [][Next]_vars

(***************************************************************************)
(* Properties                                                              *)
(***************************************************************************)

\* The log holds a call of the given kind for candidate i.
Logged(ev, i) == \E p \in 1..Len(log) : log[p].ev = ev /\ log[p].idx = i
HookInvoked(i) == Logged("hook", i)
ConnectStarted(i) == Logged("connect", i)

\* tryConnect has run for candidate i: it called out for it, or it failed.
AttemptSeen(i) ==
    \/ \E p \in 1..Len(log) : log[p].idx = i
    \/ \E j \in 1..Len(failures) : failures[j].idx = i

\* C1: when the connect hook calls back with an error for a candidate, the
\* call is rejected with that very error, and nothing is attempted after it:
\* the hook invocation that failed is the last call the engine made, no
\* socket was opened for that candidate or a later one, whatever candidates
\* remain in the list.
C1_HookErrorIsFatal ==
    \A r \in 1..Len(hookReplies) :
        hookReplies[r].err # NoError =>
            LET i == hookReplies[r].idx
            IN /\ r = Len(hookReplies)
               /\ pc = "done"
               /\ result.status = "rejected"
               /\ result.error = hookReplies[r].err
               /\ log[Len(log)].ev = "hook" /\ log[Len(log)].idx = i
               /\ \A p \in 1..Len(log) : log[p].idx <= i
               /\ \A s \in 1..Len(sockets) : sockets[s].idx < i
               /\ ~AttemptSeen(i + 1)

\* C1 witness: a hook error on a candidate that is not the last of the list.
C1_Witness ==
    \E r \in 1..Len(hookReplies) :
        /\ hookReplies[r].err # NoError
        /\ hookReplies[r].idx < Len(mxHosts)
        /\ result.status = "rejected"

\* C2: a socket error or a connect timeout on candidate i is a retryable
\* failure: the error gets temporary=true and category 'network' unless it
\* came with a category, and when candidates remain the call does not fail
\* there: tryNextMX continues with candidate i + 1, which is attempted next.
C2_TcpFailureTriesNext ==
    \A j \in 1..Len(failures) :
        LET f == failures[j]
        IN f.raised.origin \in {"socket", "timeout"} =>
            /\ ~f.fatal
            /\ f.error.temporary = "true"
            /\ f.error.category =
                   (IF f.raised.category # NoCategory THEN f.raised.category ELSE "network")
            /\ f.idx < Len(mxHosts) =>
                   IF j = Len(failures) /\ pc = "next"
                   THEN index = f.idx + 1 /\ result.status = "pending"
                   ELSE AttemptSeen(f.idx + 1)

\* C2 witness: a TCP failure on a candidate after which the next one was attempted.
C2_Witness ==
    \E j \in 1..Len(failures) :
        /\ failures[j].raised.origin \in {"socket", "timeout"}
        /\ failures[j].idx < Len(mxHosts)
        /\ HookInvoked(failures[j].idx + 1) \/ ConnectStarted(failures[j].idx + 1)

\* C3: when the call is rejected after retryable failures only, every
\* candidate of the list was attempted, in order, and the error is the one of
\* the first candidate, with a category set.
C3_FirstErrorWins ==
    ( /\ result.status = "rejected"
      /\ failures # <<>>
      /\ \A j \in 1..Len(failures) : failures[j].raised.origin # "hook" ) =>
        /\ Len(failures) = Len(mxHosts)
        /\ \A j \in 1..Len(failures) : failures[j].idx = j /\ ~failures[j].fatal
        /\ result.error = failures[1].error
        /\ result.error.category # NoCategory

\* C3 witness: the call is rejected after two candidates failed with
\* different kinds of retryable errors.
C3_Witness ==
    /\ result.status = "rejected"
    /\ Len(failures) >= 2
    /\ \A j \in 1..Len(failures) : ~failures[j].fatal
    /\ failures[1].error.category # failures[2].error.category

\* The sockets opened by the call that are not destroyed / whose attempt is not settled.
OpenSockets == { s \in 1..Len(sockets) : ~sockets[s].destroyed }
UnsettledSockets == { s \in 1..Len(sockets) : ~sockets[s].settled }

\* Candidate i has failed as retryable.
FailedRetryable(i) ==
    \E j \in 1..Len(failures) : failures[j].idx = i /\ ~failures[j].fatal

\* C4: the try loop is sequential.  At most one socket opened by the call is
\* not destroyed and at most one attempt is unsettled; no hook call is
\* pending while a socket attempt is; sockets, hook calls and connects are
\* made in list order, at most once per candidate; and whenever candidate i
\* has been attempted, every candidate before it has failed as retryable and
\* the socket of its attempt is settled and destroyed.
C4_SequentialAttempts ==
    /\ Cardinality(OpenSockets) <= 1
    /\ Cardinality(UnsettledSockets) <= 1
    /\ pc = "hook" => UnsettledSockets = {}
    /\ \A s, t \in 1..Len(sockets) : s < t => sockets[s].idx < sockets[t].idx
    /\ \A p, q \in 1..Len(log) :
           p < q => /\ log[p].idx <= log[q].idx
                    /\ log[p].ev = log[q].ev => log[p].idx < log[q].idx
    /\ \A i \in 1..Len(mxHosts) :
           AttemptSeen(i) =>
               \A k \in 1..(i - 1) :
                   /\ FailedRetryable(k)
                   /\ \A s \in 1..Len(sockets) :
                          sockets[s].idx = k =>
                              /\ sockets[s].destroyed
                              /\ sockets[s].outcome \in {"timeout", "error"}

\* C4 witness: a second socket is open after the first candidate's socket failed.
C4_Witness ==
    /\ Len(sockets) >= 2
    /\ sockets[1].destroyed
    /\ ~sockets[2].destroyed /\ ~sockets[2].settled

\* The number of times the attempt on socket s has completed, in the given
\* failures and result: as a retryable failure of its candidate, or as the
\* connection returned.
Completions(s, fs, res) ==
    Cardinality({ j \in 1..Len(fs) :
                    fs[j].idx = sockets[s].idx /\ fs[j].raised.origin \in {"socket", "timeout"} })
    + (IF res.status = "resolved" /\ res.connection.socket = [kind |-> "tcp", id |-> s]
       THEN 1 ELSE 0)

\* The completion that goes with an outcome is the one recorded.
OutcomeRecorded(s, outcome, fs, res) ==
    \/ /\ outcome = "connected"
       /\ res.status = "resolved" /\ res.connection.socket = [kind |-> "tcp", id |-> s]
    \/ /\ outcome = "timeout"
       /\ \E j \in 1..Len(fs) : fs[j].idx = sockets[s].idx /\ fs[j].raised.origin = "timeout"
    \/ /\ outcome = "error"
       /\ \E j \in 1..Len(fs) : fs[j].idx = sockets[s].idx /\ fs[j].raised.origin = "socket"

\* C5: every step leaves each TCP attempt either unsettled with no
\* completion, or settled by exactly one of connected, timeout and error with
\* exactly that one completion; and an attempt that is settled keeps its
\* outcome in every later step, whatever event arrives.
C5_SingleOutcome ==
    [][ \A s \in 1..Len(sockets) :
            /\ sockets[s].settled =>
                   /\ sockets'[s].settled
                   /\ sockets'[s].outcome = sockets[s].outcome
                   /\ Completions(s, failures', result') = 1
            /\ ~sockets'[s].settled =>
                   /\ sockets'[s].outcome = "pending"
                   /\ Completions(s, failures', result') = 0
            /\ sockets'[s].settled =>
                   /\ sockets'[s].outcome \in {"connected", "timeout", "error"}
                   /\ Completions(s, failures', result') = 1
                   /\ OutcomeRecorded(s, sockets'[s].outcome, failures', result')
      ]_vars

\* C5 witness: the connect event arrived on a socket after its attempt had timed out.
C5_Witness ==
    \E s \in 1..Len(sockets) :
        /\ sockets[s].outcome = "timeout"
        /\ sockets[s].connectFired
        /\ Completions(s, failures, result) = 1

\* C6: one socket at most is connected and returned; every socket whose
\* attempt timed out or failed is destroyed; a socket whose connect event
\* came after its attempt had settled is destroyed and is not the one
\* returned; and once the call has settled, every socket it opened other than
\* the one returned is destroyed.
C6_LosersDestroyed ==
    /\ Cardinality({ s \in 1..Len(sockets) : sockets[s].outcome = "connected" }) <= 1
    /\ \A s \in 1..Len(sockets) :
           LET returned == result.status = "resolved"
                           /\ result.connection.socket = [kind |-> "tcp", id |-> s]
           IN /\ returned <=> sockets[s].outcome = "connected"
              /\ sockets[s].outcome \in {"timeout", "error"} => sockets[s].destroyed
              /\ (sockets[s].connectFired /\ sockets[s].outcome # "connected") =>
                     sockets[s].destroyed /\ ~returned
              /\ (pc = "done" /\ ~returned) => sockets[s].destroyed
    /\ (result.status = "resolved" /\ result.connection.socket.kind = "hook") =>
           \A s \in 1..Len(sockets) : sockets[s].destroyed

\* C6 witness: the call returned a connected socket, and the socket of an
\* earlier attempt timed out and connected afterwards.
C6_Witness ==
    /\ pc = "done"
    /\ result.status = "resolved"
    /\ result.connection.socket.kind = "tcp"
    /\ \E s \in 1..Len(sockets) :
           /\ sockets[s].outcome = "timeout" /\ sockets[s].connectFired
           /\ sockets[s].destroyed

\* The candidates of delivery.mx before they are sorted, and the priority the
\* entry of delivery.mx gives to the candidate with address h.
UnsortedHosts == buildMxHostList(delivery).mxHosts
PriorityOfHost(h) ==
    LET k == CHOOSE k \in 1..Len(UnsortedHosts) : UnsortedHosts[k].host = h
    IN UnsortedHosts[k].priority
MinimalPriority(p) == \A k \in 1..Len(UnsortedHosts) : p <= UnsortedHosts[k].priority

\* C7: candidates are attempted in ascending MX priority, whatever the order
\* of delivery.mx.  The calls the engine makes and the failures it records
\* are, in the order they happen, for candidates of non-decreasing priority,
\* and the first of them is for a candidate whose priority is minimal among
\* all candidates of delivery.mx.
C7_AscendingPriority ==
    /\ \A p, q \in 1..Len(log) :
           p < q => PriorityOfHost(log[p].host) <= PriorityOfHost(log[q].host)
    /\ \A j, k \in 1..Len(failures) :
           j < k => PriorityOfHost(mxHosts[failures[j].idx].host)
                        <= PriorityOfHost(mxHosts[failures[k].idx].host)
    /\ log # <<>> => MinimalPriority(PriorityOfHost(log[1].host))
    /\ failures # <<>> => MinimalPriority(PriorityOfHost(mxHosts[failures[1].idx].host))

\* C7 witness: delivery.mx lists the entry of priority 20 before the one of
\* priority 10, and the second entry was attempted first, the first entry after it.
C7_Witness ==
    /\ Len(delivery.mx) >= 2
    /\ delivery.mx[1].priority > delivery.mx[2].priority
    /\ Len(log) >= 2
    /\ log[1].host \in { delivery.mx[2].A[k] : k \in 1..Len(delivery.mx[2].A) }
    /\ \E p \in 2..Len(log) :
           log[p].host \in { delivery.mx[1].A[k] : k \in 1..Len(delivery.mx[1].A) }

\* Candidate i carries a policyMatch with valid = false and testing = false.
PolicyInvalidEnforced(i) ==
    /\ mxHosts[i].policyMatch.present
    /\ ~mxHosts[i].policyMatch.valid
    /\ ~mxHosts[i].policyMatch.testing

\* Candidate i failed with an error of the given category, as retryable.
FailedWith(i, category) ==
    \E j \in 1..Len(failures) :
        failures[j].idx = i /\ failures[j].error.category = category /\ ~failures[j].fatal

\* After the failure of candidate i the loop went on to what follows it.
LoopContinued(i) ==
    \/ pc = "next" /\ index = i + 1
    \/ i < Len(mxHosts) /\ AttemptSeen(i + 1)
    \/ i = Len(mxHosts) /\ result.status = "rejected"

\* C8: the MTA-STS gate blocks an attempted candidate exactly when its
\* policyMatch is set with valid = false and testing = false.  A blocked
\* candidate has no hook call, no connect and no socket, has failed as
\* retryable with category 'policy', and the loop went on; any other
\* attempted candidate has no policy failure and went on to the DANE gate,
\* the hook or the connect.  A call whose only candidate is blocked rejects
\* with category 'policy' and has opened no socket.
C8_PolicyGate ==
    /\ \A i \in 1..Len(mxHosts) :
           AttemptSeen(i) =>
               IF PolicyInvalidEnforced(i)
               THEN /\ ~HookInvoked(i) /\ ~ConnectStarted(i)
                    /\ \A s \in 1..Len(sockets) : sockets[s].idx # i
                    /\ FailedWith(i, "policy")
                    /\ \A j \in 1..Len(failures) :
                           failures[j].idx = i =>
                               failures[j].raised.origin = "policy" /\ ~failures[j].fatal
                    /\ LoopContinued(i)
               ELSE /\ \A j \in 1..Len(failures) :
                           failures[j].idx = i =>
                               /\ failures[j].error.category # "policy"
                               /\ failures[j].raised.origin # "policy"
                    /\ \/ FailedWith(i, "dane")
                       \/ HookInvoked(i)
                       \/ ConnectStarted(i)
    /\ (Len(mxHosts) = 1 /\ PolicyInvalidEnforced(1) /\ pc = "done") =>
           /\ result.status = "rejected"
           /\ result.error.category = "policy"
           /\ sockets = <<>>

\* C8 witness: the first candidate was blocked, and the second one, whose
\* policyMatch is invalid in testing mode, got its hook call.
C8_Witness ==
    /\ Len(mxHosts) = 2
    /\ PolicyInvalidEnforced(1) /\ FailedWith(1, "policy")
    /\ mxHosts[2].policyMatch.present
    /\ ~mxHosts[2].policyMatch.valid /\ mxHosts[2].policyMatch.testing
    /\ HookInvoked(2)

\* DANE is enabled with verify not false, and candidate i has daneLookupFailed.
DaneLookupFailedVerified(i) ==
    /\ delivery.dane.present /\ delivery.dane.enabled
    /\ delivery.dane.verify # FALSE
    /\ mxHosts[i].daneLookupFailed

\* Candidate i has a retryable failure of category 'dane' with temporary = true.
RefusedByDane(i) ==
    \E j \in 1..Len(failures) :
        /\ failures[j].idx = i /\ ~failures[j].fatal
        /\ failures[j].error.category = "dane"
        /\ failures[j].error.temporary = "true"

\* With dane.verify = false, or DANE not enabled, no candidate fails with category 'dane'.
NoDaneRefusalUnlessVerified ==
    (~delivery.dane.present \/ ~delivery.dane.enabled \/ delivery.dane.verify = FALSE) =>
        \A j \in 1..Len(failures) :
            failures[j].error.category # "dane" /\ failures[j].raised.origin # "dane"

\* C9 as stated: every attempted candidate with daneLookupFailed, under DANE
\* with verify not false, has no hook call and no socket, and its refusal has
\* category 'dane' and temporary = true.
C9_AsStated ==
    /\ \A i \in 1..Len(mxHosts) :
           (AttemptSeen(i) /\ DaneLookupFailedVerified(i)) =>
               /\ ~HookInvoked(i) /\ ~ConnectStarted(i)
               /\ \A s \in 1..Len(sockets) : sockets[s].idx # i
               /\ RefusedByDane(i)
               /\ LoopContinued(i)
    /\ NoDaneRefusalUnlessVerified

\* C9: under DANE with verify not false, an attempted candidate with
\* daneLookupFailed has no hook call and no socket and the loop went on;
\* its refusal has category 'dane' and temporary = true unless the MTA-STS
\* gate blocked it first, in which case its refusal is the policy failure,
\* with category 'policy' and no temporary flag.  With verify = false no
\* candidate is refused by the gate.
C9_DaneGate ==
    /\ \A i \in 1..Len(mxHosts) :
           (AttemptSeen(i) /\ DaneLookupFailedVerified(i)) =>
               /\ ~HookInvoked(i) /\ ~ConnectStarted(i)
               /\ \A s \in 1..Len(sockets) : sockets[s].idx # i
               /\ LoopContinued(i)
               /\ IF PolicyInvalidEnforced(i)
                  THEN /\ ~RefusedByDane(i)
                       /\ \E j \in 1..Len(failures) :
                              /\ failures[j].idx = i /\ ~failures[j].fatal
                              /\ failures[j].error.category = "policy"
                              /\ failures[j].error.temporary = Unset
                  ELSE RefusedByDane(i)
    /\ NoDaneRefusalUnlessVerified

\* C9 witness: the first candidate was refused by the DANE gate and the loop
\* went on to attempt the second one.
C9_Witness ==
    /\ Len(mxHosts) = 2
    /\ DaneLookupFailedVerified(1) /\ ~PolicyInvalidEnforced(1)
    /\ RefusedByDane(1)
    /\ AttemptSeen(2)

\* C10: when the connect hook has completed for candidate i without an error
\* and with options.socket set, no connect was started and no socket opened
\* for i, that reply is the last thing that happened in the loop, and the
\* call has resolved with a connection for candidate i whose socket is the
\* one the hook supplied.
C10_HookSocketWins ==
    \A r \in 1..Len(hookReplies) :
        (hookReplies[r].err = NoError /\ hookReplies[r].socket) =>
            LET i == hookReplies[r].idx
            IN /\ r = Len(hookReplies)
               /\ ~ConnectStarted(i)
               /\ \A s \in 1..Len(sockets) : sockets[s].idx < i
               /\ \A k \in (i + 1)..Len(mxHosts) : ~AttemptSeen(k)
               /\ pc = "done"
               /\ result.status = "resolved"
               /\ result.connection.socket = [kind |-> "hook", id |-> i]
               /\ result.connection.idx = i
               /\ result.connection.host = mxHosts[i].host
               /\ mxHosts[i].socket = [kind |-> "hook", id |-> i]

\* C10 witness: the socket attempt on the first candidate failed, and the hook
\* supplied the socket for the second one.
C10_Witness ==
    /\ Len(hookReplies) = 2
    /\ hookReplies[2].err = NoError /\ hookReplies[2].socket
    /\ hookReplies[2].idx = 2
    /\ Len(sockets) = 1
    /\ result.status = "resolved"

(***************************************************************************)
(* The candidate list: calls whose delivery varies in ignoreMXHosts,       *)
(* dnsOptions.preferIPv6, mxLastError and the address layout, and calls    *)
(* with more candidates than MAX_MX_HOSTS.  Every target either accepts    *)
(* or refuses the connection while its attempt is pending.                 *)
(***************************************************************************)

ListLayouts == {"plain", "dual", "shared", "bare"}
ListPatterns == {"ascending", "equal", "rotated"}
IgnoreLists == SUBSET {Ip4(1), Ip6(1), Ip4(2)}

\* delivery.mxLastError: not given, or an error with or without a category,
\* a response and a temporary flag of its own.
MxLastErrors ==
    {NoError} \cup
    { [origin |-> "mxLastError", idx |-> 0, category |-> c, temporary |-> t, response |-> r,
        code |-> Unset] :
        c \in {NoCategory, "dns"}, t \in {Unset, "true", "false"}, r \in {Unset, "own"} }

\* delivery.mx of n entries that pass both gates.
OpenMxList(layout, pattern, n) ==
    [k \in 1..n |-> MxEntry(layout, k, Priority(pattern, k), NoPolicyMatch, FALSE)]

ListDelivery(mx, ignored, lastError, preferIPv6, hook) ==
    [mx |-> mx, ignoreMXHosts |-> ignored, mxLastError |-> lastError,
     dnsOptions |-> [preferIPv6 |-> preferIPv6], port |-> DefaultPort,
     dane |-> NoDane, connectHook |-> hook, connectError |-> TRUE,
     localAddress |-> NoAddress, localAddressIPv4 |-> NoAddress,
     localAddressIPv6 |-> NoAddress]

ListDeliveries ==
    { ListDelivery(OpenMxList(l, p, n), ig, le, v6, hook) :
        l \in ListLayouts, p \in ListPatterns, n \in 0..MaxMx, ig \in IgnoreLists,
        le \in MxLastErrors, v6 \in BOOLEAN, hook \in BOOLEAN }

\* Calls with MAX_MX_HOSTS - 1 to MaxHosts entries of one address each.
LongDeliveries ==
    { ListDelivery(OpenMxList("plain", p, n), ig, NoError, FALSE, hook) :
        p \in {"ascending", "descending"}, n \in (MAX_MX_HOSTS - 1)..MaxHosts,
        ig \in {{}, {Ip4(1)}}, hook \in BOOLEAN }

InitList ==
    /\ delivery \in ListDeliveries \cup LongDeliveries
    /\ mxHosts = <<>>
    /\ pc = "init"
    /\ index = 0
    /\ firstError = NoError
    /\ sockets = <<>>
    /\ log = <<>>
    /\ failures = <<>>
    /\ hookReplies = <<>>
    /\ result = [status |-> "pending", error |-> NoError, connection |-> NoConnection]
    /\ chain = [NoChain EXCEPT !.mxLastError = delivery.mxLastError]

NextList ==
    \/ GetConnection
    \/ NextMX
    \/ \E setSocket \in BOOLEAN : HookDone(NoError, setSocket)
    \/ \E s \in UnsettledSockets : SocketConnect(s)
    \/ \E s \in UnsettledSockets : SocketError(s, NoCategory)

SpecList == InitList /\ [][NextList]_vars

\* The hosts that got a connect-hook call or a TCP connect.
AttemptedHosts ==
    { log[p].host : p \in { q \in 1..Len(log) : log[q].ev \in {"hook", "connect"} } }

\* The number of candidates of the list U that a stable sort by priority
\* puts before the candidate with address h.
RankOfHost(U, h) ==
    LET pos == CHOOSE k \in 1..Len(U) : U[k].host = h
    IN Cardinality({ k \in 1..Len(U) :
                       \/ U[k].priority < U[pos].priority
                       \/ U[k].priority = U[pos].priority /\ k < pos })

\* C11: at most MAX_MX_HOSTS candidates are attempted per call.  No more than
\* 20 hosts get a hook call or a connect and no more than 20 failures are
\* recorded; every attempted host is among the first 20 of the deduplicated,
\* filtered list in priority order; and a call that rejects after every
\* attempted candidate has failed has made exactly min(20, length) attempts.
C11_AtMostTwentyAttempts ==
    LET U == UnsortedHosts
    IN /\ Cardinality(AttemptedHosts) <= MAX_MX_HOSTS
       /\ Len(failures) <= MAX_MX_HOSTS
       /\ Len(sockets) <= MAX_MX_HOSTS
       /\ Len(mxHosts) <= MAX_MX_HOSTS
       /\ \A p \in 1..Len(log) :
              /\ log[p].idx <= MAX_MX_HOSTS
              /\ ~delivery.dnsOptions.preferIPv6 =>
                     /\ RankOfHost(U, log[p].host) < MAX_MX_HOSTS
                     /\ RankOfHost(U, log[p].host) = log[p].idx - 1
       /\ (result.status = "rejected" /\ U # <<>>) =>
              /\ Len(failures) = IF Len(U) > MAX_MX_HOSTS THEN MAX_MX_HOSTS ELSE Len(U)
              /\ Cardinality(AttemptedHosts) = Len(failures)

\* C11 witness: delivery.mx lists 21 addresses, best priority last; the call
\* rejected after 20 failed attempts, and the first entry was never attempted.
C11_Witness ==
    /\ Len(UnsortedHosts) > MAX_MX_HOSTS
    /\ delivery.mx[1].priority > delivery.mx[2].priority
    /\ Len(failures) = MAX_MX_HOSTS
    /\ result.status = "rejected"
    /\ delivery.mx[1].A[1] \notin AttemptedHosts

\* The addresses entry k of delivery.mx lists, and the first entry that lists h.
ListedBy(k) ==
    { delivery.mx[k].A[a] : a \in 1..Len(delivery.mx[k].A) }
    \cup { delivery.mx[k].AAAA[a] : a \in 1..Len(delivery.mx[k].AAAA) }
FirstListing(h) ==
    CHOOSE k \in 1..Len(delivery.mx) :
        h \in ListedBy(k) /\ \A j \in 1..(k - 1) : h \notin ListedBy(j)

\* C12: no IP address is attempted twice.  The candidate list holds each
\* address once, with the hostname and priority of the first entry of
\* delivery.mx that lists it; every listed address that is not ignored is in
\* the list when the list is not capped; and no two hook calls and no two
\* connects of a call are for the same address.
C12_AddressesOnce ==
    pc # "init" =>
        /\ \A i, j \in 1..Len(mxHosts) : i # j => mxHosts[i].host # mxHosts[j].host
        /\ \A i \in 1..Len(mxHosts) :
               LET k == FirstListing(mxHosts[i].host)
               IN /\ mxHosts[i].hostname = delivery.mx[k].exchange
                  /\ mxHosts[i].priority = delivery.mx[k].priority
        /\ Len(mxHosts) < MAX_MX_HOSTS =>
               \A k \in 1..Len(delivery.mx) :
                   \A h \in ListedBy(k) \ delivery.ignoreMXHosts :
                       \E i \in 1..Len(mxHosts) : mxHosts[i].host = h
        /\ \A p, q \in 1..Len(log) :
               (p # q /\ log[p].ev = log[q].ev /\ log[p].ev \in {"hook", "connect"}) =>
                   log[p].host # log[q].host

\* C12 witness: both entries list the same IPv4 address, the first entry has
\* the worse priority, and that address was attempted once, after a better
\* candidate, as a candidate of the first entry.
C12_Witness ==
    /\ Len(delivery.mx) = 2
    /\ delivery.mx[1].priority > delivery.mx[2].priority
    /\ Ip4(1) \in ListedBy(1) /\ Ip4(1) \in ListedBy(2)
    /\ Ip4(2) \in { delivery.mx[2].A[a] : a \in 1..Len(delivery.mx[2].A) }
    /\ Ip4(2) \in { delivery.mx[2].AAAA[a] : a \in 1..Len(delivery.mx[2].AAAA) }
    /\ \E i \in 2..Len(mxHosts) :
           /\ mxHosts[i].host = Ip4(1)
           /\ mxHosts[i].hostname = delivery.mx[1].exchange
           /\ ConnectStarted(i)
    /\ pc = "done"

\* The addresses of a list of candidates, in order.
HostsOf(hosts) == [i \in 1..Len(hosts) |-> hosts[i].host]

\* The candidates the call would have with nothing ignored, in sorted order.
SortedWithoutIgnoring ==
    SortHosts(buildMxHostList([delivery EXCEPT !.ignoreMXHosts = {}]).mxHosts,
              delivery.dnsOptions.preferIPv6)

\* C13: a candidate whose address is in ignoreMXHosts is never attempted.  No
\* call the engine makes, no socket and no connection is for an ignored
\* address, and the candidates of the call are the ones it would have with
\* nothing ignored, in the same order, less the ignored ones.
C13_IgnoredNeverAttempted ==
    pc # "init" =>
        LET S == HostsOf(SortedWithoutIgnoring)
            kept == HostsOf(CapHosts(SelectSeq(SortedWithoutIgnoring,
                                               LAMBDA h : h.host \notin delivery.ignoreMXHosts)))
            logged == [p \in 1..Len(log) |-> CHOOSE a \in 1..Len(S) : S[a] = log[p].host]
        IN /\ \A p \in 1..Len(log) : log[p].host \notin delivery.ignoreMXHosts
           /\ \A i \in 1..Len(mxHosts) : mxHosts[i].host \notin delivery.ignoreMXHosts
           /\ result.status = "resolved" =>
                  result.connection.host \notin delivery.ignoreMXHosts
           /\ HostsOf(mxHosts) = kept
           /\ \A p \in 1..Len(log) : S[logged[p]] = log[p].host
           /\ \A p \in 1..(Len(log) - 1) : logged[p] <= logged[p + 1]

\* C13 witness: the best candidate is ignored, and two others were attempted
\* one after the other.
C13_Witness ==
    /\ Len(delivery.mx) >= 1
    /\ delivery.mx[1].priority <= 10
    /\ Ip4(1) \in delivery.ignoreMXHosts
    /\ Ip4(1) \in ListedBy(1)
    /\ Len(failures) >= 1
    /\ Len(sockets) >= 2
    /\ pc = "done" /\ result.status = "resolved"

\* Every address delivery.mx lists.
AllListed == UNION { ListedBy(k) : k \in 1..Len(delivery.mx) }

\* C14: when no listed address is left after ignoreMXHosts, the call rejects
\* at once with no hook call, connect or socket.  If some address was listed,
\* the error is the caller's mxLastError when given, with its category and
\* response kept when set ('network' and a network response otherwise) and
\* temporary true unless it was false; without mxLastError it is a new error
\* of category 'network', temporary true.  If no address was listed at all it
\* is the 'no MX servers' error of category 'dns'.  These errors occur in no
\* other case.
C14_EmptyListErrors ==
    pc # "init" =>
        IF AllListed \ delivery.ignoreMXHosts = {}
        THEN /\ pc = "done" /\ result.status = "rejected"
             /\ log = <<>> /\ sockets = <<>> /\ hookReplies = <<>> /\ failures = <<>>
             /\ IF AllListed = {}
                THEN /\ result.error.origin = "no-mx"
                     /\ result.error.category = "dns"
                ELSE IF chain.mxLastError # NoError
                THEN /\ result.error.origin = "mxLastError"
                     /\ result.error.category =
                            IF chain.mxLastError.category # NoCategory
                            THEN chain.mxLastError.category ELSE "network"
                     /\ result.error.response =
                            IF chain.mxLastError.response # Unset
                            THEN chain.mxLastError.response ELSE "Network error"
                     /\ result.error.temporary =
                            IF chain.mxLastError.temporary = "false" THEN "false" ELSE "true"
                ELSE /\ result.error.origin = "no-hosts-left"
                     /\ result.error.category = "network"
                     /\ result.error.temporary = "true"
        ELSE result.error.origin \notin {"no-mx", "mxLastError", "no-hosts-left"}

\* C14 witness: every listed address is ignored, and the call rejected with
\* the caller's mxLastError, which was given with a category and a response
\* of its own and temporary = false.
C14_Witness ==
    /\ pc = "done"
    /\ AllListed # {} /\ AllListed \subseteq delivery.ignoreMXHosts
    /\ chain.mxLastError.temporary = "false"
    /\ chain.mxLastError.category = "dns"
    /\ chain.mxLastError.response = "own"
    /\ result.error = chain.mxLastError
    /\ result.error = delivery.mxLastError

\* The position in the log of the first call the engine made for address h.
FirstLogged(h) == CHOOSE p \in 1..Len(log) : log[p].host = h /\ \A q \in 1..(p - 1) : log[q].host # h

\* C15 as stated: among attempted candidates of equal priority, with
\* preferIPv6 every IPv6 address is attempted before every IPv4 address, and
\* without it they are attempted in flatten order (entry by entry, A before AAAA).
C15_AsStated ==
    LET U == UnsortedHosts
        logged == { log[p].host : p \in 1..Len(log) }
    IN \A a, b \in 1..Len(U) :
           (/\ U[a].host \in logged /\ U[b].host \in logged
            /\ U[a].priority = U[b].priority
            /\ FirstLogged(U[a].host) < FirstLogged(U[b].host)) =>
               IF delivery.dnsOptions.preferIPv6
               THEN ~(isIPv4(U[a].host) /\ isIPv6(U[b].host))
               ELSE a < b

(***************************************************************************)
(* mxConnect: the delivery object built from the options, the stage list,  *)
(* and the stages that run before getConnection.  One behaviour is one     *)
(* mxConnect(options) call; an action is a stage function up to its first  *)
(* await, or the continuation that a DNS answer resumes.                   *)
(***************************************************************************)

\* Longest answer to an MX lookup, and longest options.mx, drawn for a call.
MaxRecords == 2

\* A bracketed IP literal such as [192.0.2.1] or [IPv6:2001:db8::1]; inner is
\* what the brackets hold.
Literal(inner) == [family |-> "literal", inner |-> inner]
\* A string that is neither a host name nor an IP address.
NotAnAddress == [family |-> "garbage", n |-> 0]

\* net.isIP(x) is non-zero.
isIP(x) == isIPv4(x) \/ isIPv6(x)

\* punycode.toASCII(domain)
toASCII(domain) ==
    IF domain.family = "name" /\ domain.script = "unicode"
    THEN [domain EXCEPT !.script = "xn"]
    ELSE domain

\* The unspecified addresses 0.0.0.0 and ::, which tools.isInvalid refuses.
Unspecified4 == Ip4(0)
Unspecified6 == Ip6(0)

\* Addresses of the ranges blockLocalAddresses is about: 127.0.0.1 and ::1,
\* 192.168.0.1, and a public address that a local interface carries.
Loopback4 == Ip4(127)
Loopback6 == Ip6(127)
Private4 == Ip4(192)
Interface4 == Ip4(198)

\* ipaddr.parse(ip).range()
Range(ip) ==
    IF ip.n = 0 THEN "unspecified"
    ELSE IF ip.n = 127 THEN "loopback"
    ELSE IF ip.n = 192 THEN "private"
    ELSE "unicast"

\* tools.isLocal(address): the address is 0.0.0.0 or one of os.networkInterfaces().
isLocal(ip) == ip = Unspecified4 \/ ip = Interface4

\* tools.isInvalid(delivery, ip), for an address that parses: whether a
\* message is returned.
isInvalid(d, ip) ==
    \/ /\ d.dnsOptions.blockLocalAddresses
       /\ Range(ip) \in {"loopback", "private"} \/ isLocal(ip)
    \/ Range(ip) \in {"unspecified", "broadcast"}

\* An error object of a stage that runs before getConnection.
StageError(origin, category, temporary, code) ==
    [origin |-> origin, idx |-> 0, category |-> category, temporary |-> temporary,
     response |-> IF category = "dns" THEN "DNS Error" ELSE Unset, code |-> code]

\* A delivery field that is not set yet.
NoPolicy == [mode |-> "unset", mx |-> {}]

\* options.mx entries as the caller writes them: a string, or an object
\* whose fields may be missing (NoExchange; NaN for a priority that is not a
\* number; <<>> for a missing list).
MxString(x) ==
    [string |-> TRUE, exchange |-> x, priority |-> NaN, A |-> <<>>, AAAA |-> <<>>,
     tlsaRecords |-> <<>>]
MxObject(exchange, priority, A, AAAA) ==
    [string |-> FALSE, exchange |-> exchange, priority |-> priority, A |-> A, AAAA |-> AAAA,
     tlsaRecords |-> <<>>]
\* The same entry with pre-resolved TLSA records.
WithTlsaRecords(entry, records) == [entry EXCEPT !.tlsaRecords = records]

\* normalizeMxEntry(mx)
normalizeMxEntry(mx) ==
    IF mx.string
    THEN [exchange |-> mx.exchange, priority |-> 0, mx |-> FALSE,
          A |-> IF isIPv4(mx.exchange) THEN <<mx.exchange>> ELSE <<>>,
          AAAA |-> IF isIPv6(mx.exchange) THEN <<mx.exchange>> ELSE <<>>,
          policyMatch |-> NoPolicyMatch, tlsaRecords |-> <<>>, daneLookupFailed |-> FALSE]
    ELSE [exchange |-> mx.exchange,
          priority |-> IF mx.priority.nan THEN 0 ELSE mx.priority.n,
          mx |-> FALSE, A |-> mx.A, AAAA |-> mx.AAAA,
          policyMatch |-> NoPolicyMatch, tlsaRecords |-> mx.tlsaRecords,
          daneLookupFailed |-> FALSE]

\* options.port is not given.
NoPort == 0

\* The options of a call: target, mx, dnsOptions.ignoreIPv6, mtaSts.enabled,
\* dane.enabled and whether a connectHook is given.
Options(target, mx, ignoreIPv6, mtaSts, dane, hook) ==
    [target |-> target, mx |-> mx, ignoreIPv6 |-> ignoreIPv6, mtaSts |-> mtaSts,
     dane |-> dane, connectHook |-> hook, blockLocalAddresses |-> FALSE,
     port |-> NoPort, daneVerify |-> TRUE]

\* The same options with a port, and with dane.verify set to false.
WithPort(options, port) == [options EXCEPT !.port = port]
VerifyOff(options) == [options EXCEPT !.daneVerify = FALSE]

\* The same options with dnsOptions.blockLocalAddresses set.
BlockLocal(options) == [options EXCEPT !.blockLocalAddresses = TRUE]

\* buildDeliveryObject(options)
buildDeliveryObject(options) ==
    [domain |-> options.target,
     decodedDomain |-> NoExchange, isIp |-> FALSE, isPunycode |-> FALSE,
     mx |-> [k \in 1..Len(options.mx) |-> normalizeMxEntry(options.mx[k])],
     dnsOptions |-> [ignoreIPv6 |-> options.ignoreIPv6, preferIPv6 |-> FALSE,
                     blockLocalAddresses |-> options.blockLocalAddresses],
     port |-> IF options.port = NoPort THEN DefaultPort ELSE options.port,
     localAddress |-> NoAddress, localAddressIPv4 |-> NoAddress,
     localAddressIPv6 |-> NoAddress,
     connectHook |-> options.connectHook, connectError |-> TRUE,
     ignoreMXHosts |-> {}, mxLastError |-> NoError,
     mtaSts |-> [enabled |-> options.mtaSts, policy |-> NoPolicy],
     dane |-> DaneConfig(options.dane, options.daneVerify)]

\* buildPipeline with resolveIP pushed whenever delivery.mx is given.
buildPipelineAlwaysResolveIP(d) ==
    <<"formatAddress", "resolvePolicy">>
    \o (IF Len(d.mx) = 0 THEN <<"resolveMX">> ELSE <<>>)
    \o <<"validateMxPolicy", "resolveIP">>
    \o (IF d.dane.present /\ d.dane.enabled THEN <<"resolveDaneTlsa">> ELSE <<>>)
    \o <<"getConnection">>

\* buildPipeline(delivery)
buildPipeline(d) ==
    LET hasMx == Len(d.mx) > 0
        needsIpResolution ==
            hasMx /\ \E k \in 1..Len(d.mx) :
                         d.mx[k].exchange # NoExchange /\ Len(d.mx[k].A) = 0 /\ Len(d.mx[k].AAAA) = 0
    IN <<"formatAddress", "resolvePolicy">>
       \o (IF ~hasMx THEN <<"resolveMX">> ELSE <<>>)
       \o <<"validateMxPolicy">>
       \o (IF ~hasMx \/ needsIpResolution THEN <<"resolveIP">> ELSE <<>>)
       \o (IF d.dane.present /\ d.dane.enabled THEN <<"resolveDaneTlsa">> ELSE <<>>)
       \o <<"getConnection">>

\* formatAddress(delivery): the delivery as the stage leaves it, and the error
\* it rejects with (NoError when it resolves).
formatAddress(d) ==
    LET isIp == d.domain.family = "literal" \/ isIP(d.domain)
        stripped == IF d.domain.family = "literal" THEN d.domain.inner ELSE d.domain
    IN IF isIp
       THEN LET dd == [d EXCEPT !.isIp = TRUE, !.isPunycode = FALSE, !.decodedDomain = stripped]
            IN IF ~isIP(stripped)
               THEN [delivery |-> dd,
                     error |-> StageError("formatAddress", "dns", Unset, Unset)]
               ELSE IF isIPv6(stripped) /\ d.dnsOptions.ignoreIPv6
               THEN [delivery |-> dd,
                     error |-> [StageError("formatAddress", "dns", Unset, Unset)
                                    EXCEPT !.response = "Network error"]]
               ELSE [delivery |-> dd, error |-> NoError]
       ELSE [delivery |-> [d EXCEPT !.isIp = FALSE,
                                    !.decodedDomain = toASCII(d.domain),
                                    !.isPunycode = toASCII(d.domain) # d.domain],
             error |-> NoError]

\* The stage at the head of the chain is the named one and has not started.
StageReady(name) ==
    /\ pc = "chain"
    /\ chain.state = "ready"
    /\ chain.steps[chain.step] = name

\* The chain as it is once the stage at its head has started.
Started(c, name) == [c EXCEPT !.started = Append(@, name), !.state = "running"]

\* The stage at the head of chain c resolves with delivery d: the next stage
\* is the head, and getConnection can be called when it is the next one.
StageResolves(c, d) ==
    /\ delivery' = d
    /\ chain' = [c EXCEPT !.step = @ + 1, !.state = "ready", !.pending = {}]
    /\ pc' = IF c.steps[c.step + 1] = "getConnection" THEN "init" ELSE "chain"
    /\ UNCHANGED <<mxHosts, index, firstError, sockets, log, failures, hookReplies, result>>

\* A chain that goes on with the next stage when a stage rejects.
StageRejectsAndGoesOn(c, d, error) ==
    /\ delivery' = d
    /\ chain' = [c EXCEPT !.step = @ + 1, !.state = "ready", !.pending = {}, !.error = error]
    /\ pc' = IF c.steps[c.step + 1] = "getConnection" THEN "init" ELSE "chain"
    /\ UNCHANGED <<mxHosts, index, firstError, sockets, log, failures, hookReplies, result>>

\* The stage at the head of chain c rejects: every later then(fn) is
\* skipped and the promise of mxConnect rejects with the error.
StageRejects(c, d, error) ==
    /\ delivery' = d
    /\ chain' = [c EXCEPT !.state = "settled", !.pending = {}, !.error = error]
    /\ Reject(error)
    /\ UNCHANGED <<mxHosts, index, firstError, sockets, log, failures, hookReplies>>

\* The stage at the head of chain c waits for the answers to the lookups it
\* has just issued.
StageWaits(c, d, issued) ==
    /\ delivery' = d
    /\ chain' = [c EXCEPT !.state = "waiting",
                          !.lookups = @ \o issued,
                          !.pending = { issued[k] : k \in 1..Len(issued) }]
    /\ UNCHANGED <<mxHosts, pc, index, firstError, sockets, log, failures, hookReplies,
                   result>>

\* A DNS lookup: the record type, the name asked for, and the entry of
\* delivery.mx it is made for (0 for the domain itself).
Lookup(type, name, k) == [type |-> type, name |-> name, k |-> k]

\* The formatter stage.
FormatAddress ==
    /\ StageReady("formatAddress")
    /\ LET c == Started(chain, "formatAddress")
           r == formatAddress(delivery)
       IN IF r.error # NoError
          THEN StageRejects(c, r.delivery, r.error)
          ELSE StageResolves(c, r.delivery)

(***************************************************************************)
(* resolveMX                                                               *)
(***************************************************************************)

\* The error object a failed DNS lookup calls back with; code may be missing.
\* origin and idx tell the objects of different lookups apart.
LookupError(origin, k, code) ==
    [origin |-> origin, idx |-> k, category |-> NoCategory, temporary |-> Unset,
     response |-> Unset, code |-> code]
DnsError(code) == LookupError("lookup", 0, code)
DnsErrorCodes == {"ENODATA", "ENOTFOUND", "ESERVFAIL", Unset}

\* What tryResolve returns: {list, error}, for a lookup of the given type.
Answer(type, list, error) == [type |-> type, list |-> list, error |-> error]

\* tools.isNotFoundError(err)
isNotFoundError(err) == err.code \in {"ENODATA", "ENOTFOUND"}

\* isRecoverableError that lets every failure fall through to the next type.
isRecoverableErrorAlways(err) == TRUE

\* isRecoverableError(err)
isRecoverableError(err) == err = NoError \/ isNotFoundError(err)

\* createDnsError(err, domain, defaultMessage).  err and error are one
\* object, so the isNotFoundError test reads the code written just before it.
createDnsError(err) ==
    LET error == IF err # NoError THEN err ELSE [DnsError(Unset) EXCEPT !.origin = "no-mx-found"]
        written == [error EXCEPT !.response = "DNS Error",
                                 !.code = IF @ # Unset THEN @ ELSE "ENOTFOUND",
                                 !.category = "dns"]
    IN IF err # NoError /\ ~isNotFoundError(written)
       THEN [written EXCEPT !.temporary = "true"]
       ELSE written

\* The error filterAddress captures for the k-th address it is given.
InvalidAddressError(k) ==
    [origin |-> "invalid-address", idx |-> k, category |-> "dns", temporary |-> Unset,
     response |-> "DNS Error", code |-> Unset]

\* An entry of delivery.mx with the fields later stages add not set.
ResolvedEntry(exchange, priority, mx, A, AAAA) ==
    [exchange |-> exchange, priority |-> priority, mx |-> mx, A |-> A, AAAA |-> AAAA,
     policyMatch |-> NoPolicyMatch, tlsaRecords |-> <<>>, daneLookupFailed |-> FALSE]

\* SortByPriority that keeps the answer's order.
SortByPriorityUnsorted(list) == list

\* list.slice().sort((a, b) => a.priority - b.priority): a stable sort.
RECURSIVE SortByPriority(_)
SortByPriority(list) ==
    IF list = <<>> THEN <<>>
    ELSE LET x == list[Len(list)]
             sorted == SortByPriority(SubSeq(list, 1, Len(list) - 1))
             before == SelectSeq(sorted, LAMBDA e : e.priority <= x.priority)
             after == SelectSeq(sorted, LAMBDA e : e.priority > x.priority)
         IN before \o <<x>> \o after

\* delivery.mx from a non-empty answer to the MX lookup.
MxFromRecords(list) ==
    LET sorted == SortByPriority(list)
    IN [k \in 1..Len(sorted) |->
            ResolvedEntry(sorted[k].exchange, sorted[k].priority, TRUE, <<>>, <<>>)]

\* delivery.mx from a non-empty answer to the A (v6 = FALSE) or AAAA lookup
\* of the domain: one entry per address, the address kept if filterAddress
\* accepts it.
MxFromAddresses(d, list, v6) ==
    [k \in 1..Len(list) |->
        LET kept == IF isInvalid(d, list[k]) THEN <<>> ELSE <<list[k]>>
        IN ResolvedEntry(d.decodedDomain, 0, FALSE,
                         IF v6 THEN <<>> ELSE kept, IF v6 THEN kept ELSE <<>>)]

\* firstError and addressFound after filterAddress has seen the list.
FirstInvalid(d, list) ==
    IF \E k \in 1..Len(list) : isInvalid(d, list[k])
    THEN LET k == CHOOSE k \in 1..Len(list) :
                      isInvalid(d, list[k]) /\ \A j \in 1..(k - 1) : ~isInvalid(d, list[j])
         IN InvalidAddressError(k)
    ELSE NoError
AddressFound(d, list) == \E k \in 1..Len(list) : ~isInvalid(d, list[k])

\* resolveMX(delivery) up to its first await.  An IP target needs no lookup.
ResolveMX ==
    /\ StageReady("resolveMX")
    /\ LET c == Started(chain, "resolveMX")
           ip == delivery.decodedDomain
       IN IF delivery.isIp
          THEN IF isInvalid(delivery, ip)
               THEN StageRejects(c, delivery, InvalidAddressError(1))
               ELSE StageResolves(c, [delivery EXCEPT !.mx =
                        <<ResolvedEntry(ip, 0, FALSE,
                                        IF isIPv4(ip) THEN <<ip>> ELSE <<>>,
                                        IF isIPv6(ip) /\ ~delivery.dnsOptions.ignoreIPv6
                                        THEN <<ip>> ELSE <<>>)>>])
          ELSE StageWaits(c, delivery, <<Lookup("MX", delivery.decodedDomain, 0)>>)

\* resolveMX when the answer to an A or AAAA fallback lookup is non-empty.
FallbackAnswered(c, d, list, v6) ==
    LET answered == [d EXCEPT !.mx = MxFromAddresses(d, list, v6)]
    IN IF ~AddressFound(d, list) /\ FirstInvalid(d, list) # NoError
       THEN StageRejects(c, answered, FirstInvalid(d, list))
       ELSE StageResolves(c, answered)

\* The chain once the answer to a pending lookup has arrived.
Answered(c, lookup, answer) ==
    [c EXCEPT !.pending = @ \ {lookup},
              !.answers = @ \cup {[lookup |-> lookup, answer |-> answer]}]

\* resolveMX resumes with the answer to the lookup it waits for.
ResolveMXAnswer(answer) ==
    /\ pc = "chain"
    /\ chain.state = "waiting"
    /\ chain.steps[chain.step] = "resolveMX"
    /\ chain.pending = {Lookup(answer.type, delivery.decodedDomain, 0)}
    /\ LET d == delivery
           c == Answered(chain, Lookup(answer.type, delivery.decodedDomain, 0), answer)
           domain == delivery.decodedDomain
           none == StageRejects(c, d, createDnsError(NoError))
       IN IF answer.type = "MX"
          THEN IF Len(answer.list) > 0
               THEN StageResolves(c, [d EXCEPT !.mx = MxFromRecords(answer.list)])
               ELSE IF answer.error # NoError /\ ~isRecoverableError(answer.error)
               THEN StageRejects(c, d, createDnsError(answer.error))
               ELSE StageWaits(c, d, <<Lookup("A", domain, 0)>>)
          ELSE IF answer.type = "A"
          THEN IF Len(answer.list) > 0
               THEN FallbackAnswered(c, d, answer.list, FALSE)
               ELSE IF answer.error # NoError /\ ~isRecoverableError(answer.error)
               THEN StageRejects(c, d, createDnsError(answer.error))
               ELSE IF ~d.dnsOptions.ignoreIPv6
               THEN StageWaits(c, d, <<Lookup("AAAA", domain, 0)>>)
               ELSE none
          ELSE IF Len(answer.list) > 0
               THEN FallbackAnswered(c, d, answer.list, TRUE)
               ELSE IF answer.error # NoError /\ ~isRecoverableError(answer.error)
               THEN StageRejects(c, d, createDnsError(answer.error))
               ELSE none

(***************************************************************************)
(* resolveIP                                                               *)
(***************************************************************************)

\* {error: err, exchange: mx.exchange}, the entry resolve4 and resolve6 store
\* in place of the addresses when the lookup failed.
ErrorMarker(err, exchange) ==
    [family |-> "error", n |-> 0, error |-> err, exchange |-> exchange]

\* The list resolve4 / resolve6 stores for an answer.
StoredList(answer, exchange) ==
    IF answer.error # NoError /\ answer.error.code \notin {"ENODATA", "ENOTFOUND"}
    THEN <<ErrorMarker(answer.error, exchange)>>
    ELSE answer.list

\* The lookups resolveIP issues, in the order of delivery.mx.
RECURSIVE IssuedLookups(_, _)
IssuedLookups(d, k) ==
    IF k > Len(d.mx) THEN <<>>
    ELSE LET e == d.mx[k]
         IN (IF e.exchange # NoExchange /\ ~isIP(e.exchange)
             THEN <<Lookup("A", e.exchange, k)>>
                  \o (IF ~d.dnsOptions.ignoreIPv6
                      THEN <<Lookup("AAAA", e.exchange, k)>> ELSE <<>>)
             ELSE <<>>)
            \o IssuedLookups(d, k + 1)

\* delivery.mx after the forEach that issues the lookups: an entry whose
\* exchange is an address gets it as its only A or AAAA.
DirectAddresses(mx) ==
    [k \in 1..Len(mx) |->
        IF isIPv4(mx[k].exchange) THEN [mx[k] EXCEPT !.A = <<mx[k].exchange>>]
        ELSE IF isIPv6(mx[k].exchange) THEN [mx[k] EXCEPT !.AAAA = <<mx[k].exchange>>]
        ELSE mx[k]]

\* Everything filterAddress is called with, in call order: per entry its A
\* list, then its AAAA list.
RECURSIVE FilterCalls(_, _)
FilterCalls(mx, k) ==
    IF k > Len(mx) THEN <<>>
    ELSE [j \in 1..Len(mx[k].A) |-> [k |-> k, ip |-> mx[k].A[j]]]
         \o [j \in 1..Len(mx[k].AAAA) |-> [k |-> k, ip |-> mx[k].AAAA[j]]]
         \o FilterCalls(mx, k + 1)

IsErrorMarker(ip) == ip.family = "error"

\* Whether filterAddress keeps ip.
Survives(d, ip) == ~IsErrorMarker(ip) /\ ~isInvalid(d, ip)

\* The error filterAddress captures for a call it refuses.
CapturedError(call) ==
    IF IsErrorMarker(call.ip)
    THEN [call.ip.error EXCEPT !.response = "DNS Error", !.category = "dns",
                               !.temporary = "true"]
    ELSE [origin |-> "invalid-address", idx |-> call.k, category |-> "dns",
          temporary |-> Unset, response |-> "DNS Error", code |-> "InvalidIpAddress"]

\* The error of a stage that found no address and captured nothing.
NoAddressError ==
    [origin |-> "no-address", idx |-> 0, category |-> "dns", temporary |-> Unset,
     response |-> "DNS Error", code |-> "ENOTFOUND"]

\* delivery with every A and AAAA list filtered by filterAddress.
Filtered(d) ==
    [d EXCEPT !.mx = [k \in 1..Len(d.mx) |->
        [d.mx[k] EXCEPT !.A = SelectSeq(@, LAMBDA ip : Survives(d, ip)),
                        !.AAAA = SelectSeq(@, LAMBDA ip : Survives(d, ip))]]]

\* A then-callback that rejects whenever an error was captured.
JoinedRejectsOnAnyError(c, d) ==
    LET calls == FilterCalls(d.mx, 1)
        refused == { i \in 1..Len(calls) : ~Survives(d, calls[i].ip) }
    IN IF refused # {}
       THEN StageRejects(c, Filtered(d),
                CapturedError(calls[CHOOSE i \in refused : \A j \in refused : i <= j]))
       ELSE IF calls = <<>>
       THEN StageRejects(c, Filtered(d), NoAddressError)
       ELSE StageResolves(c, Filtered(d))

\* The then-callback of Promise.all(resolveAddresses): every list is
\* filtered, and the stage rejects when no address was found.
Joined(c, d) ==
    LET calls == FilterCalls(d.mx, 1)
        refused == { i \in 1..Len(calls) : ~Survives(d, calls[i].ip) }
        addressFound == \E i \in 1..Len(calls) : Survives(d, calls[i].ip)
    IN IF ~addressFound
       THEN IF refused # {}
            THEN StageRejects(c, Filtered(d),
                     CapturedError(calls[CHOOSE i \in refused : \A j \in refused : i <= j]))
            ELSE StageRejects(c, Filtered(d), NoAddressError)
       ELSE StageResolves(c, Filtered(d))

\* resolveIP(delivery) up to the answers it waits for.
ResolveIP ==
    /\ StageReady("resolveIP")
    /\ LET c == Started(chain, "resolveIP")
           d == [delivery EXCEPT !.mx = DirectAddresses(@)]
           issued == IssuedLookups(delivery, 1)
       IN IF issued = <<>>
          THEN Joined(c, d)
          ELSE StageWaits(c, d, issued)

\* The callback of one resolve4 / resolve6 lookup; the last one to arrive
\* lets Promise.all resolve.
ResolveIPAnswer(lookup, answer) ==
    /\ pc = "chain"
    /\ chain.state = "waiting"
    /\ chain.steps[chain.step] = "resolveIP"
    /\ lookup \in chain.pending
    /\ answer.type = lookup.type
    /\ LET c == Answered(chain, lookup, answer)
           stored == StoredList(answer, delivery.mx[lookup.k].exchange)
           d == IF lookup.type = "A"
                THEN [delivery EXCEPT !.mx[lookup.k].A = stored]
                ELSE [delivery EXCEPT !.mx[lookup.k].AAAA = stored]
       IN IF c.pending = {}
          THEN Joined(c, d)
          ELSE /\ delivery' = d
               /\ chain' = c
               /\ UNCHANGED <<mxHosts, pc, index, firstError, sockets, log, failures,
                              hookReplies, result>>

(***************************************************************************)
(* MTA-STS and DANE stages                                                 *)
(***************************************************************************)

\* An MTA-STS policy as getPolicy returns it: its mode and the exchanges
\* its mx patterns match.
Policy(mode, mx) == [mode |-> mode, mx |-> mx]

\* validateMx(exchange, policy) of mailauth: everything is valid under mode
\* "none"; otherwise the exchange must match, and testing tells the mode.
validateMx(exchange, policy) ==
    IF policy.mode \in {"none", "unset"}
    THEN PolicyMatch(TRUE, FALSE)
    ELSE PolicyMatch(exchange \in policy.mx, policy.mode = "testing")

\* The error a rejected cache or getPolicy call carries.
PolicyFetchError ==
    [origin |-> "getPolicy", idx |-> 0, category |-> NoCategory, temporary |-> Unset,
     response |-> Unset, code |-> Unset]

\* A call resolvePolicy makes: the function, the domain it is called for,
\* the policy passed (the known policy for getPolicy, the policy to store
\* for cache.set), and what the call returned once it has.
NotReturned == [policy |-> NoPolicy, status |-> "pending"]
Call(fn, domain, policy) ==
    [fn |-> fn, domain |-> domain, policy |-> policy, returned |-> NotReturned]

\* resolvePolicy waits for the call it made last.
PolicyStageWaits ==
    /\ pc = "chain"
    /\ chain.state = "waiting"
    /\ chain.steps[chain.step] = "resolvePolicy"
    /\ Lookup("policy", delivery.decodedDomain, 0) \in chain.pending

\* resolvePolicy(delivery) up to its first await: cache.get is called.
ResolvePolicy ==
    /\ StageReady("resolvePolicy")
    /\ LET c == Started(chain, "resolvePolicy")
       IN IF ~delivery.mtaSts.enabled
          THEN StageResolves(c, delivery)
          ELSE StageWaits([c EXCEPT !.calls = <<Call("cache.get", delivery.decodedDomain, NoPolicy)>>],
                          delivery, <<Lookup("policy", delivery.decodedDomain, 0)>>)

\* cache.get has returned knownPolicy: getPolicy is called with it.
CacheGetReturns(knownPolicy) ==
    /\ PolicyStageWaits
    /\ Len(chain.calls) = 1
    /\ chain' = [chain EXCEPT
                   !.calls = <<[@[1] EXCEPT !.returned = [policy |-> knownPolicy, status |-> "got"]],
                               Call("getPolicy", delivery.decodedDomain, knownPolicy)>>]
    /\ UNCHANGED <<delivery, mxHosts, pc, index, firstError, sockets, log, failures,
                   hookReplies, result>>

\* The stage resolves with the policy.
PolicyStageResolves(c, policy) ==
    StageResolves(Answered(c, Lookup("policy", delivery.decodedDomain, 0),
                           Answer("policy", <<policy>>, NoError)),
                  [delivery EXCEPT !.mtaSts.policy = policy])

\* resolvePolicy that stores the policy whatever the status.
AfterGetPolicyAlwaysStores(c, policy, status) ==
    /\ chain' = [c EXCEPT !.calls = Append(@, Call("cache.set", delivery.decodedDomain, policy))]
    /\ UNCHANGED <<delivery, mxHosts, pc, index, firstError, sockets, log, failures,
                   hookReplies, result>>

\* resolvePolicy after getPolicy: if (status !== 'cached') cache.set is
\* called and awaited, otherwise the stage resolves.
AfterGetPolicy(c, policy, status) ==
    IF status # "cached"
    THEN /\ chain' = [c EXCEPT !.calls = Append(@, Call("cache.set", delivery.decodedDomain, policy))]
         /\ UNCHANGED <<delivery, mxHosts, pc, index, firstError, sockets, log, failures,
                        hookReplies, result>>
    ELSE PolicyStageResolves(c, policy)

\* getPolicy has returned {policy, status}.
GetPolicyReturns(policy, status) ==
    /\ PolicyStageWaits
    /\ Len(chain.calls) = 2
    /\ chain.calls[2].returned = NotReturned
    /\ status = "cached" => policy = chain.calls[2].policy
    /\ AfterGetPolicy([chain EXCEPT !.calls[2].returned = [policy |-> policy, status |-> status]],
                      policy, status)

\* getPolicy has rejected: so does the stage.
GetPolicyFails ==
    /\ PolicyStageWaits
    /\ Len(chain.calls) = 2
    /\ chain.calls[2].returned = NotReturned
    /\ StageRejects(Answered([chain EXCEPT !.calls[2].returned.status = "rejected"],
                             Lookup("policy", delivery.decodedDomain, 0),
                             Answer("policy", <<NoPolicy>>, PolicyFetchError)),
                    delivery, PolicyFetchError)

\* cache.set has returned.
CacheSetReturns ==
    /\ PolicyStageWaits
    /\ Len(chain.calls) = 3
    /\ PolicyStageResolves([chain EXCEPT !.calls[3].returned.status = "set"], chain.calls[3].policy)

\* The statuses getPolicy returns.
PolicyStatuses == {"found", "updated", "renewed", "cached", "not_found", "errored"}

\* validateMxPolicy(delivery)
ValidateMxPolicy ==
    /\ StageReady("validateMxPolicy")
    /\ LET c == Started(chain, "validateMxPolicy")
       IN IF ~delivery.mtaSts.enabled
          THEN StageResolves(c, delivery)
          ELSE StageResolves(c, [delivery EXCEPT !.mx = [k \in 1..Len(delivery.mx) |->
                   [delivery.mx[k] EXCEPT !.policyMatch =
                        validateMx(delivery.mx[k].exchange, delivery.mtaSts.policy)]]])

\* A TLSA record of the k-th exchange.
TlsaRecord(k) == [usage |-> 3, selector |-> 1, mtype |-> 1, cert |-> k]

\* `_${port}._tcp.${hostname}`
TlsaName(port, hostname) == [family |-> "tlsa", port |-> port, hostname |-> hostname]

\* resolveTlsaRecords that rethrows every error of the resolver.
resolveTlsaRecordsRethrowsAll(answer) == answer

\* dane.resolveTlsaRecords(hostname, port, options) given the answer of the
\* resolver: ENODATA, ENOTFOUND and ENOENT mean that there are no records.
resolveTlsaRecords(answer) ==
    IF answer.error # NoError /\ answer.error.code \in {"ENODATA", "ENOTFOUND", "ENOENT"}
    THEN Answer("TLSA", <<>>, NoError)
    ELSE answer

\* TlsaLookups without the test for records the entry already has.
TlsaLookupsForEveryEntry(d, k) ==
    [i \in 1..(Len(d.mx) - k + 1) |->
        Lookup("TLSA", TlsaName(d.port, d.mx[i + k - 1].exchange), i + k - 1)]

\* The TLSA lookups resolveDaneTlsa issues: one per entry without records.
RECURSIVE TlsaLookups(_, _)
TlsaLookups(d, k) ==
    IF k > Len(d.mx) THEN <<>>
    ELSE (IF Len(d.mx[k].tlsaRecords) > 0 THEN <<>>
          ELSE <<Lookup("TLSA", TlsaName(d.port, d.mx[k].exchange), k)>>)
         \o TlsaLookups(d, k + 1)

\* resolveDaneTlsa(delivery) up to the lookups it waits for.
ResolveDaneTlsa ==
    /\ StageReady("resolveDaneTlsa")
    /\ LET c == Started(chain, "resolveDaneTlsa")
           issued == TlsaLookups(delivery, 1)
       IN IF ~(delivery.dane.present /\ delivery.dane.enabled) \/ issued = <<>>
          THEN StageResolves(c, delivery)
          ELSE StageWaits(c, delivery, issued)

\* The TLSA resolver answers one dane.resolveTlsaRecords call, which returns
\* records or throws; the last one lets Promise.all resolve.
ResolveDaneTlsaAnswer(lookup, answer) ==
    /\ pc = "chain"
    /\ chain.state = "waiting"
    /\ chain.steps[chain.step] = "resolveDaneTlsa"
    /\ lookup \in chain.pending
    /\ answer.type = "TLSA"
    /\ LET c == Answered(chain, lookup, answer)
           records == resolveTlsaRecords(answer)
           d == IF records.error = NoError
                THEN [delivery EXCEPT !.mx[lookup.k].tlsaRecords = records.list]
                ELSE IF delivery.dane.verify # FALSE
                THEN [delivery EXCEPT !.mx[lookup.k].tlsaRecords = <<>>,
                                      !.mx[lookup.k].daneLookupFailed = TRUE]
                ELSE [delivery EXCEPT !.mx[lookup.k].tlsaRecords = <<>>]
       IN IF c.pending = {}
          THEN StageResolves(c, d)
          ELSE /\ delivery' = d
               /\ chain' = c
               /\ UNCHANGED <<mxHosts, pc, index, firstError, sockets, log, failures,
                              hookReplies, result>>

(***************************************************************************)
(* mxConnect(options): the calls, the environment's answers, the chain     *)
(***************************************************************************)

\* The targets of a call: host names, addresses, bracketed literals.
Targets ==
    { Name(1), UnicodeName(1), Ip4(1), Ip6(1), Unspecified4,
      Literal(Ip4(1)), Literal(Ip6(1)), Literal(NotAnAddress) }

\* The k-th entry of a supplied options.mx, per kind:
\*   "name": a host name string;        "address": an IP address string;
\*   "resolved": an object with exchange, priority and an A list;
\*   "bare": an object with an exchange only;
\*   "anonymous": an object with an A list and no exchange.
SuppliedKinds == {"name", "address", "resolved", "bare", "anonymous"}
SuppliedEntry(kind, k) ==
    IF kind = "name" THEN MxString(Name(k))
    ELSE IF kind = "address" THEN MxString(Ip4(k))
    ELSE IF kind = "resolved" THEN MxObject(Name(k), Num(10 * k), <<Ip4(k)>>, <<>>)
    ELSE IF kind = "bare" THEN MxObject(Name(k), NaN, <<>>, <<>>)
    ELSE MxObject(NoExchange, Num(10 * k), <<Ip4(k)>>, <<>>)

\* Supplied lists of one kind, and a resolved entry followed by names.
SuppliedLists ==
    { [k \in 1..n |-> SuppliedEntry(kind, k)] : kind \in SuppliedKinds, n \in 1..MaxMx }
    \cup { [k \in 1..n |-> SuppliedEntry(IF k = 1 THEN "resolved" ELSE "name", k)] :
             n \in 2..MaxMx }

PipelineOptions ==
    { Options(t, <<>>, v6, FALSE, FALSE, FALSE) : t \in Targets, v6 \in BOOLEAN }
    \cup { Options(Name(1), <<>>, TRUE, m, d, h) : m \in BOOLEAN, d \in BOOLEAN, h \in BOOLEAN }
    \cup { Options(Name(1), mx, TRUE, m, d, FALSE) :
             mx \in SuppliedLists, m \in BOOLEAN, d \in BOOLEAN }
    \cup { Options(Name(1), mx, FALSE, FALSE, FALSE, h) : mx \in SuppliedLists, h \in BOOLEAN }

\* The answers a resolver gives to the MX lookup of the domain.
MxRecord(pattern, k) == [exchange |-> Name(k), priority |-> Priority(pattern, k)]
MxAnswers ==
    { Answer("MX", [k \in 1..n |-> MxRecord(p, k)], NoError) :
        n \in 0..MaxRecords, p \in PriorityPatterns }
    \cup { Answer("MX", <<>>, DnsError(code)) : code \in DnsErrorCodes }

\* The answers to the A and AAAA lookups of the domain itself.
FallbackAnswers ==
    { Answer("A", list, NoError) :
        list \in {<<>>, <<Ip4(1)>>, <<Unspecified4>>, <<Unspecified4, Ip4(1)>>} }
    \cup { Answer("AAAA", list, NoError) : list \in {<<>>, <<Ip6(1)>>, <<Unspecified6>>} }
    \cup { Answer(type, <<>>, DnsError(code)) : type \in {"A", "AAAA"}, code \in DnsErrorCodes }

\* The answers to the A and AAAA lookups of the exchange of entry k.
ExchangeAnswers(k) ==
    { Answer("A", list, NoError) : list \in {<<>>, <<Ip4(k)>>, <<Unspecified4>>} }
    \cup { Answer("AAAA", list, NoError) : list \in {<<>>, <<Ip6(k)>>} }
    \cup { Answer("A", <<>>, LookupError("resolve4", k, code)) :
             code \in {"ENOTFOUND", "ESERVFAIL"} }
    \cup { Answer("AAAA", <<>>, LookupError("resolve6", k, "ESERVFAIL")) }

\* What dane.resolveTlsaRecords settles with for entry k.
TlsaAnswers(k) ==
    { Answer("TLSA", <<>>, NoError), Answer("TLSA", <<TlsaRecord(k)>>, NoError),
      Answer("TLSA", <<>>, LookupError("resolveTlsa", k, "ESERVFAIL")) }

\* The policies getPolicy returns.
Policies == { Policy("none", {}), Policy("enforce", {Name(1)}), Policy("testing", {}) }

\* What cache.get returns: nothing, or the policy stored before.
KnownPolicies == { NoPolicy, Policy("enforce", {Name(1)}) }

\* mxConnect(options): the delivery object is built, the stage list is fixed
\* and the chain starts with its first stage.
InitPipeline ==
    /\ \E options \in PipelineOptions :
          /\ delivery = buildDeliveryObject(options)
          /\ chain = [NoChain EXCEPT !.options = options,
                                     !.steps = buildPipeline(buildDeliveryObject(options)),
                                     !.step = 1, !.state = "ready"]
    /\ mxHosts = <<>>
    /\ pc = "chain"
    /\ index = 0
    /\ firstError = NoError
    /\ sockets = <<>>
    /\ log = <<>>
    /\ failures = <<>>
    /\ hookReplies = <<>>
    /\ result = [status |-> "pending", error |-> NoError, connection |-> NoConnection]

NextPipeline ==
    \/ FormatAddress
    \/ ResolvePolicy
    \/ \E knownPolicy \in KnownPolicies : CacheGetReturns(knownPolicy)
    \/ \E policy \in Policies, status \in {"found", "cached"} : GetPolicyReturns(policy, status)
    \/ GetPolicyFails
    \/ CacheSetReturns
    \/ ResolveMX
    \/ \E answer \in MxAnswers \cup FallbackAnswers : ResolveMXAnswer(answer)
    \/ ValidateMxPolicy
    \/ ResolveIP
    \/ \E lookup \in chain.pending :
          \E answer \in ExchangeAnswers(lookup.k) : ResolveIPAnswer(lookup, answer)
    \/ ResolveDaneTlsa
    \/ \E lookup \in chain.pending :
          \E answer \in TlsaAnswers(lookup.k) : ResolveDaneTlsaAnswer(lookup, answer)
    \/ GetConnection
    \/ NextMX
    \/ HookDone(NoError, FALSE)
    \/ \E s \in UnsettledSockets : SocketConnect(s)
    \/ \E s \in UnsettledSockets : SocketError(s, NoCategory)

SpecPipeline == InitPipeline /\ [][NextPipeline]_vars

(***************************************************************************)
(* Properties of resolveMX                                                 *)
(***************************************************************************)

\* The lookups resolveMX has issued for the domain, in order, and the answer
\* a lookup has got.
DomainLookups ==
    SelectSeq(chain.lookups, LAMBDA l : l.k = 0 /\ l.type \in {"MX", "A", "AAAA"})
IsAnswered(l) == \E a \in chain.answers : a.lookup = l
AnswerOf(l) == (CHOOSE a \in chain.answers : a.lookup = l).answer

\* The answer has no records, from an empty list or an ENODATA / ENOTFOUND
\* failure.
NothingFound(answer) ==
    /\ Len(answer.list) = 0
    /\ answer.error = NoError \/ answer.error.code \in {"ENODATA", "ENOTFOUND"}

\* The answer is a failure other than ENODATA / ENOTFOUND.
OtherFailure(answer) ==
    answer.error # NoError /\ answer.error.code \notin {"ENODATA", "ENOTFOUND"}

RejectedWith(category) == result.status = "rejected" /\ result.error.category = category

\* C16: resolveMX asks for MX, then A, then AAAA, and asks for the next type
\* only after the previous lookup found nothing (no records, ENODATA or
\* ENOTFOUND); a lookup that fails in any other way is the last one and the
\* call is rejected with category 'dns', and with temporary = true when the
\* failure is a DNS error, that is, carries a code as the errors of a
\* resolver do; when every lookup found nothing the call is rejected with
\* category 'dns' and code ENOTFOUND.
C16_LookupOrder ==
    LET ls == DomainLookups
        types == [i \in 1..Len(ls) |-> ls[i].type]
    IN /\ types \in {<<>>, <<"MX">>, <<"MX", "A">>, <<"MX", "A", "AAAA">>}
       /\ \A i \in 2..Len(ls) : IsAnswered(ls[i - 1]) /\ NothingFound(AnswerOf(ls[i - 1]))
       /\ \A i \in 1..Len(ls) :
            IsAnswered(ls[i]) /\ OtherFailure(AnswerOf(ls[i]))
                => /\ i = Len(ls)
                   /\ RejectedWith("dns")
                   /\ AnswerOf(ls[i]).error.code # Unset => result.error.temporary = "true"
       /\ (/\ Len(ls) = (IF delivery.dnsOptions.ignoreIPv6 THEN 2 ELSE 3)
           /\ \A i \in 1..Len(ls) : IsAnswered(ls[i]) /\ NothingFound(AnswerOf(ls[i])))
                => RejectedWith("dns") /\ result.error.code = "ENOTFOUND"

\* C16 witness: the MX lookup found nothing, the A lookup failed with
\* ESERVFAIL, and the call was rejected with category 'dns' and temporary =
\* true without an AAAA lookup although IPv6 is not ignored.
C16_Witness ==
    /\ ~delivery.dnsOptions.ignoreIPv6
    /\ Len(DomainLookups) = 2
    /\ IsAnswered(DomainLookups[2])
    /\ AnswerOf(DomainLookups[2]).error.code = "ESERVFAIL"
    /\ RejectedWith("dns")
    /\ result.error.temporary = "true"

\* The stage called name has just resolved: the next stage is the head of the
\* chain and has not started.
JustResolved(name) ==
    /\ chain.state = "ready"
    /\ chain.step > 1
    /\ chain.steps[chain.step - 1] = name

\* The records the MX lookup of the domain was answered with.
MxAnswerList == AnswerOf(Lookup("MX", delivery.decodedDomain, 0)).list

\* seq and records hold the same {exchange, priority} pairs, each as often.
SameRecords(seq, records) ==
    /\ Len(seq) = Len(records)
    /\ \A i \in 1..Len(records) :
          Cardinality({ j \in 1..Len(seq) :
                          /\ seq[j].exchange = records[i].exchange
                          /\ seq[j].priority = records[i].priority })
          = Cardinality({ j \in 1..Len(records) : records[j] = records[i] })

\* C17: when resolveMX has resolved for a domain target, then either the MX
\* answer was non-empty and delivery.mx holds its records in ascending
\* priority order, each with mx = true and empty A and AAAA; or the A or
\* AAAA fallback answered and delivery.mx has one entry per returned address
\* with exchange = decodedDomain, priority 0, mx = false and the list of the
\* other family empty; the list of its own family holds the address alone
\* when filterAddress accepts it and is empty when filterAddress refuses it.
C17_ResolvedMxShape ==
    JustResolved("resolveMX") /\ ~delivery.isIp =>
        LET mx == delivery.mx
            ls == DomainLookups
            last == ls[Len(ls)]
            list == AnswerOf(last).list
            kept(ip) == IF isInvalid(delivery, ip) THEN <<>> ELSE <<ip>>
        IN IF Len(MxAnswerList) > 0
           THEN /\ SameRecords(mx, MxAnswerList)
                /\ \A k \in 1..(Len(mx) - 1) : mx[k].priority <= mx[k + 1].priority
                /\ \A k \in 1..Len(mx) :
                      mx[k].mx = TRUE /\ mx[k].A = <<>> /\ mx[k].AAAA = <<>>
           ELSE /\ last.type \in {"A", "AAAA"}
                /\ Len(mx) = Len(list)
                /\ Len(mx) > 0
                /\ \A k \in 1..Len(mx) :
                      /\ mx[k].exchange = delivery.decodedDomain
                      /\ mx[k].priority = 0
                      /\ mx[k].mx = FALSE
                      /\ mx[k].A = (IF last.type = "A" THEN kept(list[k]) ELSE <<>>)
                      /\ mx[k].AAAA = (IF last.type = "AAAA" THEN kept(list[k]) ELSE <<>>)

\* C17 witness: resolveMX has resolved through the A fallback from an answer
\* of two addresses, the first refused by the address check and the second
\* accepted: the first entry has both lists empty, the second holds its
\* address in A alone.
C17_Witness ==
    /\ JustResolved("resolveMX")
    /\ ~delivery.isIp
    /\ Len(MxAnswerList) = 0
    /\ LET last == DomainLookups[Len(DomainLookups)]
           list == AnswerOf(last).list
       IN /\ last.type = "A"
          /\ Len(list) = 2
          /\ isInvalid(delivery, list[1]) /\ ~isInvalid(delivery, list[2])
          /\ delivery.mx[1].A = <<>> /\ delivery.mx[1].AAAA = <<>>
          /\ delivery.mx[2].A = <<list[2]>> /\ delivery.mx[2].AAAA = <<>>
          /\ \A k \in 1..2 : delivery.mx[k].exchange = delivery.decodedDomain
                                /\ delivery.mx[k].priority = 0 /\ delivery.mx[k].mx = FALSE

\* C17 as stated: after a fallback every entry holds its address in the list
\* of the matching family, whatever the address check says of it.
C17_AsStated ==
    JustResolved("resolveMX") /\ ~delivery.isIp =>
        LET mx == delivery.mx
            ls == DomainLookups
            last == ls[Len(ls)]
            list == AnswerOf(last).list
        IN IF Len(MxAnswerList) > 0
           THEN /\ SameRecords(mx, MxAnswerList)
                /\ \A k \in 1..(Len(mx) - 1) : mx[k].priority <= mx[k + 1].priority
                /\ \A k \in 1..Len(mx) :
                      mx[k].mx = TRUE /\ mx[k].A = <<>> /\ mx[k].AAAA = <<>>
           ELSE /\ last.type \in {"A", "AAAA"}
                /\ Len(mx) = Len(list)
                /\ Len(mx) > 0
                /\ \A k \in 1..Len(mx) :
                      /\ mx[k].exchange = delivery.decodedDomain
                      /\ mx[k].priority = 0
                      /\ mx[k].mx = FALSE
                      /\ mx[k].A = (IF last.type = "A" THEN <<list[k]>> ELSE <<>>)
                      /\ mx[k].AAAA = (IF last.type = "AAAA" THEN <<list[k]>> ELSE <<>>)

(***************************************************************************)
(* Properties of the stage chain                                           *)
(***************************************************************************)

\* The seven stages in pipeline order.
StageOrder ==
    <<"formatAddress", "resolvePolicy", "resolveMX", "validateMxPolicy", "resolveIP",
      "resolveDaneTlsa", "getConnection">>

\* The stage is one of the stages of this call.
InChain(name) == \E i \in 1..Len(chain.steps) : chain.steps[i] = name

\* A supplied entry has an exchange and brings no address: a host name
\* string, or an object with an exchange and neither A nor AAAA.
LacksAddresses(entry) ==
    /\ entry.exchange # NoExchange
    /\ IF entry.string THEN ~isIP(entry.exchange)
       ELSE Len(entry.A) = 0 /\ Len(entry.AAAA) = 0

\* C18: the stages of a call are those of the order format, policy fetch, MX
\* resolve, policy validate, IP resolve, DANE resolve, connect that the
\* options of the call select, in that order: the formatter is always the
\* first and the connector always the last; MX resolution is a stage iff
\* options.mx is empty; IP resolution is a stage iff options.mx is empty or a
\* supplied entry with an exchange has neither A nor AAAA; DANE resolution is
\* a stage iff dane.enabled is true; and at every moment the stages started
\* so far are the leading stages of that list, each started once.
C18_StageList ==
    chain.state # "none" =>
        LET o == chain.options
            selected(name) ==
                CASE name = "resolveMX" -> Len(o.mx) = 0
                  [] name = "resolveIP" ->
                        Len(o.mx) = 0 \/ \E k \in 1..Len(o.mx) : LacksAddresses(o.mx[k])
                  [] name = "resolveDaneTlsa" -> o.dane
                  [] OTHER -> TRUE
        IN /\ chain.steps = SelectSeq(StageOrder, selected)
           /\ chain.steps[1] = "formatAddress"
           /\ chain.steps[Len(chain.steps)] = "getConnection"
           /\ Len(chain.started) <= Len(chain.steps)
           /\ chain.started = SubSeq(chain.steps, 1, Len(chain.started))

\* A call with supplied MX entries of which one brings no address has
\* connected: IP resolution ran, MX resolution did not.
C18_Witness ==
    /\ result.status = "resolved"
    /\ Len(chain.options.mx) = 2
    /\ ~LacksAddresses(chain.options.mx[1])
    /\ LacksAddresses(chain.options.mx[2])
    /\ chain.started =
         <<"formatAddress", "resolvePolicy", "validateMxPolicy", "resolveIP", "getConnection">>

\* The connector has done something: built its list, called the hook, opened
\* a socket.
ConnectorActed == mxHosts # <<>> \/ log # <<>> \/ sockets # <<>> \/ hookReplies # <<>>

\* The stage a lookup belongs to.
StageOfLookup(l) ==
    IF l.type = "policy" THEN "resolvePolicy"
    ELSE IF l.type = "TLSA" THEN "resolveDaneTlsa"
    ELSE IF l.k = 0 THEN "resolveMX"
    ELSE "resolveIP"

\* C19: the stages of a call run one at a time and a failing stage ends the
\* call.  The k-th stage has started only when the k - 1 stages before it
\* have resolved; the lookups that are outstanding belong to the one stage
\* that is running; the connector acts only when every stage before it has
\* resolved; and once a stage before the connector has rejected, no further
\* stage has started, no hook call and no TCP connect has been made, and the
\* call is rejected with the error of that stage.
C19_SequentialStages ==
    chain.state # "none" =>
        /\ chain.step - 1 <= Len(chain.started)
        /\ Len(chain.started) <= chain.step
        /\ chain.started = SubSeq(chain.steps, 1, Len(chain.started))
        /\ \A l \in chain.pending :
              /\ Len(chain.started) = chain.step
              /\ StageOfLookup(l) = chain.steps[chain.step]
        /\ ConnectorActed => chain.step = Len(chain.steps) /\ chain.started = chain.steps
        /\ result.status = "resolved" => chain.started = chain.steps
        /\ chain.error # NoError =>
              /\ chain.step < Len(chain.steps)
              /\ Len(chain.started) = chain.step
              /\ chain.pending = {}
              /\ ~ConnectorActed
              /\ result.status = "rejected"
              /\ result.error = chain.error

\* The IP resolution of a call with a connect hook has rejected.
C19_Witness ==
    /\ chain.error # NoError
    /\ chain.steps[chain.step] = "resolveIP"
    /\ chain.options.connectHook
    /\ InChain("resolveDaneTlsa")
    /\ result.status = "rejected"

(***************************************************************************)
(* Properties of resolveIP                                                 *)
(***************************************************************************)

\* resolveIP has settled: it has just resolved, or it has rejected.
ResolveIPResolved == JustResolved("resolveIP")
ResolveIPRejected == chain.error # NoError /\ chain.steps[chain.step] = "resolveIP"

\* The list of a family that entry k had when the caller supplied it (empty
\* for the entries resolveMX makes for a host name).
SuppliedList(k, type) ==
    IF Len(chain.options.mx) = 0 THEN <<>>
    ELSE IF type = "A" THEN normalizeMxEntry(chain.options.mx[k]).A
    ELSE normalizeMxEntry(chain.options.mx[k]).AAAA

\* What entry k offers to filterAddress for a family: the outcome of the
\* lookup made for it (a failure other than ENODATA / ENOTFOUND, or the
\* addresses returned), its exchange when that is an address of the family,
\* or else the list it came with.
Offer(k, type) ==
    LET e == delivery.mx[k]
        l == Lookup(type, e.exchange, k)
        own == (type = "A" /\ isIPv4(e.exchange)) \/ (type = "AAAA" /\ isIPv6(e.exchange))
    IN IF IsAnswered(l)
       THEN [failed |-> OtherFailure(AnswerOf(l)), error |-> AnswerOf(l).error,
             list |-> AnswerOf(l).list]
       ELSE [failed |-> FALSE, error |-> NoError,
             list |-> IF own THEN <<e.exchange>> ELSE SuppliedList(k, type)]

\* The offers in the order the stage filters them: per entry, A then AAAA.
OfferSlots == { <<k, t>> : k \in 1..Len(delivery.mx), t \in {"A", "AAAA"} }
SlotBefore(s, t) == s[1] < t[1] \/ (s[1] = t[1] /\ s[2] = "A" /\ t[2] = "AAAA")

\* An offered address passes filterAddress.
Passes(ip) == ~isInvalid(delivery, ip)
SlotSurvives(s) ==
    LET o == Offer(s[1], s[2])
    IN ~o.failed /\ \E j \in 1..Len(o.list) : Passes(o.list[j])
\* The slot makes the stage capture an error: a failed lookup, or an address
\* tools.isInvalid refuses.
SlotCaptures(s) ==
    LET o == Offer(s[1], s[2])
    IN o.failed \/ \E j \in 1..Len(o.list) : ~Passes(o.list[j])

\* The lookups resolveIP has issued.
ExchangeLookups == { l \in chain.pending : l.k > 0 /\ l.type \in {"A", "AAAA"} }
    \cup { a.lookup : a \in { b \in chain.answers : b.lookup.k > 0 /\ b.lookup.type \in {"A", "AAAA"} } }

\* C20: resolveIP filters nothing before every A and AAAA lookup it issued has
\* been answered, and it settles only then.  It resolves iff an address of
\* some entry passes filterAddress, however many lookups failed, and
\* then every list holds exactly the offered addresses that pass.  When no
\* address passes it rejects with the error captured first in entry order
\* (A before AAAA): the error object of a failed lookup, with category 'dns'
\* and temporary = true, or an invalid-address error of category 'dns'; and
\* with an error of code ENOTFOUND and category 'dns' when nothing was
\* captured.
C20_JoinThenFilter ==
    /\ (chain.state = "waiting" /\ chain.steps[chain.step] = "resolveIP") =>
          \A a \in chain.answers :
             (a.lookup \in ExchangeLookups /\ ~OtherFailure(a.answer)) =>
                 (IF a.lookup.type = "A" THEN delivery.mx[a.lookup.k].A
                  ELSE delivery.mx[a.lookup.k].AAAA) = a.answer.list
    /\ (ResolveIPResolved \/ ResolveIPRejected) =>
          /\ \A l \in ExchangeLookups : IsAnswered(l)
          /\ ResolveIPResolved <=> \E s \in OfferSlots : SlotSurvives(s)
          /\ \A k \in 1..Len(delivery.mx) :
                LET a == Offer(k, "A")
                    b == Offer(k, "AAAA")
                IN /\ delivery.mx[k].A = (IF a.failed THEN <<>> ELSE SelectSeq(a.list, Passes))
                   /\ delivery.mx[k].AAAA = (IF b.failed THEN <<>> ELSE SelectSeq(b.list, Passes))
    /\ ResolveIPRejected =>
          LET capturing == { s \in OfferSlots : SlotCaptures(s) }
          IN /\ result.status = "rejected"
             /\ result.error = chain.error
             /\ result.error.category = "dns"
             /\ IF capturing = {}
                THEN result.error.code = "ENOTFOUND"
                ELSE LET first == CHOOSE s \in capturing :
                                     \A t \in capturing \ {s} : SlotBefore(s, t)
                         o == Offer(first[1], first[2])
                     IN IF o.failed
                        THEN /\ result.error.origin = o.error.origin
                             /\ result.error.idx = o.error.idx
                             /\ result.error.code = o.error.code
                             /\ result.error.temporary = "true"
                        ELSE /\ result.error.origin = "invalid-address"
                             /\ result.error.idx = first[1]
                             /\ result.error.code = "InvalidIpAddress"

\* resolveIP has resolved although the lookup for one entry failed: an
\* address of another entry passed.
C20_Witness ==
    /\ ResolveIPResolved
    /\ Len(delivery.mx) >= 2
    /\ Offer(1, "A").failed
    /\ SlotSurvives(<<2, "A">>)

(***************************************************************************)
(* Calls that meet local and IPv6 addresses                                *)
(***************************************************************************)

\* The k-th entry of a supplied options.mx that brings addresses:
\*   "local": an object with a loopback A;   "v6": an object with an AAAA;
\*   "dual": an object with an A and an AAAA;
\*   "privateString": a private address as a string;
\*   "v6String": an IPv6 address as a string;   "name": a host name string.
AddressKinds == {"local", "v6", "dual", "privateString", "v6String", "name"}
AddressEntry(kind, k) ==
    IF kind = "local" THEN MxObject(Name(k), Num(10 * k), <<Loopback4>>, <<>>)
    ELSE IF kind = "v6" THEN MxObject(Name(k), Num(10 * k), <<>>, <<Ip6(k)>>)
    ELSE IF kind = "dual" THEN MxObject(Name(k), Num(10 * k), <<Ip4(k)>>, <<Ip6(k)>>)
    ELSE IF kind = "privateString" THEN MxString(Private4)
    ELSE IF kind = "v6String" THEN MxString(Ip6(k))
    ELSE MxString(Name(k))

\* Supplied lists of one kind, and lists whose last entry is a host name.
AddressLists ==
    { [k \in 1..n |-> AddressEntry(kind, k)] : kind \in AddressKinds, n \in 1..MaxMx }
    \cup { [k \in 1..n |-> AddressEntry(IF k = n THEN "name" ELSE kind, k)] :
             kind \in AddressKinds, n \in 2..MaxMx }

AddressTargets == { Name(1), Loopback4, Literal(Private4), Ip6(1), Literal(Ip6(1)) }

\* Calls with ignoreIPv6 and blockLocalAddresses on or off.
AddressOptions ==
    LET plain == { Options(t, <<>>, v6, FALSE, FALSE, FALSE) :
                     t \in AddressTargets, v6 \in BOOLEAN }
                 \cup { Options(Name(1), mx, v6, FALSE, FALSE, h) :
                          mx \in AddressLists, v6 \in BOOLEAN, h \in BOOLEAN }
    IN plain \cup { BlockLocal(o) : o \in plain }

\* Answers to the MX lookup, and to the A and AAAA lookups of the domain and
\* of the exchange of entry k, that hold local and IPv6 addresses.
AddressMxAnswers ==
    { Answer("MX", [k \in 1..n |-> MxRecord("ascending", k)], NoError) : n \in 0..MaxRecords }
AddressFallbackAnswers ==
    { Answer("A", list, NoError) : list \in {<<>>, <<Loopback4>>, <<Private4, Ip4(1)>>} }
    \cup { Answer("AAAA", list, NoError) : list \in {<<Ip6(1)>>, <<Loopback6>>} }
AddressExchangeAnswers(k) ==
    { Answer("A", list, NoError) :
        list \in {<<>>, <<Ip4(k)>>, <<Loopback4>>, <<Private4, Ip4(k)>>, <<Interface4>>} }
    \cup { Answer("AAAA", list, NoError) : list \in {<<Ip6(k)>>, <<Loopback6>>} }

InitAddresses ==
    /\ \E options \in AddressOptions :
          /\ delivery = buildDeliveryObject(options)
          /\ chain = [NoChain EXCEPT !.options = options,
                                     !.steps = buildPipeline(buildDeliveryObject(options)),
                                     !.step = 1, !.state = "ready"]
    /\ mxHosts = <<>>
    /\ pc = "chain"
    /\ index = 0
    /\ firstError = NoError
    /\ sockets = <<>>
    /\ log = <<>>
    /\ failures = <<>>
    /\ hookReplies = <<>>
    /\ result = [status |-> "pending", error |-> NoError, connection |-> NoConnection]

NextAddresses ==
    \/ FormatAddress
    \/ ResolvePolicy
    \/ ResolveMX
    \/ \E answer \in AddressMxAnswers \cup AddressFallbackAnswers : ResolveMXAnswer(answer)
    \/ ValidateMxPolicy
    \/ ResolveIP
    \/ \E lookup \in chain.pending :
          \E answer \in AddressExchangeAnswers(lookup.k) : ResolveIPAnswer(lookup, answer)
    \/ GetConnection
    \/ NextMX
    \/ HookDone(NoError, FALSE)
    \/ \E s \in UnsettledSockets : SocketConnect(s)
    \/ \E s \in UnsettledSockets : SocketError(s, NoCategory)

SpecAddresses == InitAddresses /\ [][NextAddresses]_vars

\* The address is one blockLocalAddresses is about: in the loopback or
\* private range, or carried by a local interface.
IsLocalAddress(ip) == Range(ip) \in {"loopback", "private"} \/ isLocal(ip)

\* C21: with dnsOptions.blockLocalAddresses, no connect hook is called for
\* and no TCP connect is made to an address in the loopback or private range
\* or of a local interface, whether DNS returned the address or the caller
\* supplied it in options.mx.
C21_AsStated ==
    chain.options.blockLocalAddresses => \A ip \in AttemptedHosts : ~IsLocalAddress(ip)

\* C22: with dnsOptions.ignoreIPv6, resolveMX and resolveIP issue no AAAA
\* lookup, an IPv6 literal target is rejected by the formatter with category
\* 'dns' before any lookup, and no connect hook is called for and no TCP
\* connect is made to an IPv6 address, whether or not the caller supplied it
\* in options.mx.
C22_AsStated ==
    chain.options.ignoreIPv6 =>
        /\ \A i \in 1..Len(chain.lookups) : chain.lookups[i].type # "AAAA"
        /\ (chain.state # "ready" \/ chain.step > 1) /\
           (isIPv6(chain.options.target) \/
              (chain.options.target.family = "literal" /\ isIPv6(chain.options.target.inner)))
             => /\ chain.error # NoError
                /\ chain.error.category = "dns"
                /\ chain.started = <<"formatAddress">>
                /\ chain.lookups = <<>>
        /\ \A ip \in AttemptedHosts : ~isIPv6(ip)


(***************************************************************************)
(* DANE: the TLSA stage with supplied records, verify and the port         *)
(***************************************************************************)

\* A port other than the default, as in mxConnect({port: 587, ...}).
SubmissionPort == 587

\* The k-th entry of a supplied options.mx: an object with an A list, and
\* with pre-resolved tlsaRecords when kind is "withTlsa".
DaneKinds == {"resolved", "withTlsa"}
SuppliedTlsa(k) == <<TlsaRecord(k + MaxMx + MaxRecords)>>
DaneEntry(kind, k) ==
    IF kind = "withTlsa"
    THEN WithTlsaRecords(MxObject(Name(k), Num(10 * k), <<Ip4(k)>>, <<>>), SuppliedTlsa(k))
    ELSE MxObject(Name(k), Num(10 * k), <<Ip4(k)>>, <<>>)

\* Every supplied list of 1..MaxMx such entries.
DaneLists ==
    UNION { { [k \in 1..n |-> DaneEntry(kinds[k], k)] : kinds \in [1..n -> DaneKinds] } :
            n \in 1..MaxMx }

\* Calls with dane enabled or not, dane.verify true or false, with and
\* without a port, with a supplied list or a domain to resolve.
DaneOptions ==
    LET plain == { Options(Name(1), mx, FALSE, FALSE, dane, FALSE) :
                     mx \in DaneLists \cup {<<>>}, dane \in BOOLEAN }
        verify == plain \cup { VerifyOff(o) : o \in plain }
    IN verify \cup { WithPort(o, SubmissionPort) : o \in verify }

\* The codes of the errors a TLSA resolver throws.
TlsaErrorCodes == {"ENODATA", "ENOTFOUND", "ENOENT", "ESERVFAIL"}

\* What the TLSA resolver answers for entry k: records, none, or an error.
DaneTlsaAnswers(k) ==
    { Answer("TLSA", <<>>, NoError), Answer("TLSA", <<TlsaRecord(k)>>, NoError) }
    \cup { Answer("TLSA", <<>>, LookupError("resolveTlsa", k, code)) : code \in TlsaErrorCodes }

\* The MX records of the domain, and the address of the exchange of entry k.
DaneMxAnswers ==
    { Answer("MX", [k \in 1..n |-> MxRecord("ascending", k)], NoError) : n \in 1..MaxRecords }
DaneExchangeAnswers(k) == { Answer("A", <<Ip4(k)>>, NoError), Answer("AAAA", <<>>, NoError) }

InitDane ==
    /\ \E options \in DaneOptions :
          /\ delivery = buildDeliveryObject(options)
          /\ chain = [NoChain EXCEPT !.options = options,
                                     !.steps = buildPipeline(buildDeliveryObject(options)),
                                     !.step = 1, !.state = "ready"]
    /\ mxHosts = <<>>
    /\ pc = "chain"
    /\ index = 0
    /\ firstError = NoError
    /\ sockets = <<>>
    /\ log = <<>>
    /\ failures = <<>>
    /\ hookReplies = <<>>
    /\ result = [status |-> "pending", error |-> NoError, connection |-> NoConnection]

NextDane ==
    \/ FormatAddress
    \/ ResolvePolicy
    \/ ResolveMX
    \/ \E answer \in DaneMxAnswers : ResolveMXAnswer(answer)
    \/ ValidateMxPolicy
    \/ ResolveIP
    \/ \E lookup \in chain.pending :
          \E answer \in DaneExchangeAnswers(lookup.k) : ResolveIPAnswer(lookup, answer)
    \/ ResolveDaneTlsa
    \/ \E lookup \in chain.pending :
          \E answer \in DaneTlsaAnswers(lookup.k) : ResolveDaneTlsaAnswer(lookup, answer)
    \/ GetConnection
    \/ NextMX
    \/ \E s \in UnsettledSockets : SocketConnect(s)
    \/ \E s \in UnsettledSockets : SocketError(s, NoCategory)

SpecDane == InitDane /\ [][NextDane]_vars


\* The positions of the TLSA lookups in the lookups the call has issued.
TlsaIssued == { i \in 1..Len(chain.lookups) : chain.lookups[i].type = "TLSA" }

\* The port the call connects to: options.port, 25 when it is not given.
CallPort == IF chain.options.port = NoPort THEN 25 ELSE chain.options.port

\* The supplied entries of options.mx with the given exchange.
SuppliedAs(exchange) ==
    { j \in 1..Len(chain.options.mx) : chain.options.mx[j].exchange = exchange }

\* C23: a TLSA lookup is issued only when dane.enabled is true, at most once
\* per MX entry, never for an entry supplied with non-empty tlsaRecords, and
\* for the name _<port>._tcp.<exchange>; a supplied entry with TLSA records
\* carries them unchanged on the returned connection; without dane enabled
\* the TLSA resolver is never called.
C23_TlsaLookups ==
    /\ ~chain.options.dane => TlsaIssued = {}
    /\ \A i \in TlsaIssued :
          LET lookup == chain.lookups[i]
          IN /\ lookup.k \in 1..Len(delivery.mx)
             /\ lookup.name = TlsaName(CallPort, delivery.mx[lookup.k].exchange)
             /\ \A j \in SuppliedAs(lookup.name.hostname) :
                   chain.options.mx[j].tlsaRecords = <<>>
             /\ \A i2 \in TlsaIssued : chain.lookups[i2].k = lookup.k => i2 = i
    /\ result.status = "resolved" =>
          \A j \in SuppliedAs(result.connection.hostname) :
             chain.options.mx[j].tlsaRecords # <<>> =>
                result.connection.tlsaRecords = chain.options.mx[j].tlsaRecords

\* A call on port 587 with one supplied entry that has TLSA records and one
\* that has none: one lookup was issued, and the connection to the former
\* carries the supplied records.
C23_Witness ==
    /\ chain.options.dane
    /\ chain.options.port = SubmissionPort
    /\ Len(chain.options.mx) = 2
    /\ Cardinality(TlsaIssued) = 1
    /\ result.status = "resolved"
    /\ result.connection.tlsaRecords = SuppliedTlsa(1)


\* The DANE stage of the call has resolved.
DaneStageDone == \E i \in 1..(chain.step - 1) : chain.steps[i] = "resolveDaneTlsa"

\* The answers the TLSA resolver gave for entry k.
TlsaAnswersFor(k) ==
    { a.answer : a \in { b \in chain.answers : b.lookup.type = "TLSA" /\ b.lookup.k = k } }

\* The entries after the DANE stage, where noRecords are the error codes that
\* mean that the name has no TLSA records: an entry is flagged iff its lookup
\* failed otherwise and dane.verify is not false; a failed lookup leaves
\* empty tlsaRecords; an entry whose lookup succeeded has the records
\* answered and no flag, and one without a lookup is as it was; the stage
\* never rejects.
DaneFlags(noRecords) ==
    /\ chain.error # NoError => chain.steps[chain.step] # "resolveDaneTlsa"
    /\ DaneStageDone =>
          \A k \in 1..Len(delivery.mx) :
             LET answers == TlsaAnswersFor(k)
                 failed == \E a \in answers : a.error # NoError /\ a.error.code \notin noRecords
                 mx == delivery.mx[k]
             IN /\ mx.daneLookupFailed <=> (failed /\ chain.options.daneVerify)
                /\ (\E a \in answers : a.error # NoError) => mx.tlsaRecords = <<>>
                /\ \A a \in answers : a.error = NoError => mx.tlsaRecords = a.list
                /\ answers = {} /\ chain.options.mx # <<>> =>
                      mx.tlsaRecords = chain.options.mx[k].tlsaRecords

\* C24 as stated: the no-records errors are ENODATA and ENOTFOUND.
C24_AsStated == DaneFlags({"ENODATA", "ENOTFOUND"})

\* C24: after the DANE stage an MX entry has daneLookupFailed iff its TLSA
\* lookup failed with an error other than ENODATA, ENOTFOUND or ENOENT and
\* dane.verify is not false; one of these three errors, or any error with
\* verify false, leaves empty tlsaRecords and no flag; a failed lookup
\* neither rejects the stage nor changes what the other entries get.
C24_DaneLookupFlag == DaneFlags({"ENODATA", "ENOTFOUND", "ENOENT"})

\* With verify on, the lookup of the first entry failed with ESERVFAIL and
\* flagged it, the lookup of the second returned records, and the stage has
\* resolved.
C24_Witness ==
    /\ DaneStageDone
    /\ chain.options.daneVerify
    /\ Len(delivery.mx) = 2
    /\ \E a \in TlsaAnswersFor(1) : a.error # NoError /\ a.error.code = "ESERVFAIL"
    /\ delivery.mx[1].daneLookupFailed
    /\ delivery.mx[2].tlsaRecords = <<TlsaRecord(2)>>
    /\ ~delivery.mx[2].daneLookupFailed


(***************************************************************************)
(* dane.js: the verifier createDaneVerifier builds                         *)
(***************************************************************************)

MaxTlsa == 2
MaxCalls == 2

DANE_USAGE == [PKIX_TA |-> 0, PKIX_EE |-> 1, DANE_TA |-> 2, DANE_EE |-> 3]
DANE_SELECTOR == [FULL_CERT |-> 0, SPKI |-> 1]
DANE_MATCHING_TYPE == [FULL |-> 0, SHA256 |-> 1, SHA512 |-> 2]

\* A buffer: the DER form ("der") or the SubjectPublicKeyInfo ("spki") of
\* certificate c, as it is or hashed; NoData is null.
Bytes(kind, hash, c) == [kind |-> kind, hash |-> hash, of |-> c]
NoData == Bytes("none", "none", 0)

\* A peer certificate: its raw DER form and its publicKey, which is a key,
\* missing, or something crypto.createPublicKey does not accept.  NoCertificate
\* is a null certificate.
Certificate(c, publicKey) == [present |-> TRUE, raw |-> c, publicKey |-> publicKey]
NoCertificate == [present |-> FALSE, raw |-> 0, publicKey |-> "missing"]

\* What a helper returns: data, or an exception thrown.
Returned(data) == [threw |-> FALSE, data |-> data]
Thrown == [threw |-> TRUE, data |-> NoData]

\* extractSPKI(cert)
extractSPKI(cert) ==
    IF cert.publicKey = "missing" THEN Returned(NoData)
    ELSE IF cert.publicKey = "malformed" THEN Thrown
    ELSE Returned(Bytes("spki", "none", cert.raw))

\* getCertData(cert, selector)
getCertData(cert, selector) ==
    IF selector = DANE_SELECTOR.SPKI THEN extractSPKI(cert)
    ELSE Returned(Bytes("der", "none", cert.raw))

\* hashCertData(data, matchingType)
hashCertData(data, matchingType) ==
    IF data = NoData THEN NoData
    ELSE IF matchingType = DANE_MATCHING_TYPE.SHA256 THEN [data EXCEPT !.hash = "sha256"]
    ELSE IF matchingType = DANE_MATCHING_TYPE.SHA512 THEN [data EXCEPT !.hash = "sha512"]
    ELSE data

\* A TLSA record of the verifier: cert is the certificate association data.
Tlsa(usage, selector, mtype, cert) ==
    [usage |-> usage, selector |-> selector, mtype |-> mtype, cert |-> cert]
NoRecord == Tlsa(0, 0, 0, NoData)

\* What verifyCertAgainstTlsa returns, or that it threw: {valid,
\* matchedRecord, error, usage, noRecords}.  error is the message, "none" for
\* null; usage is the label of the matched record, "none" when it is not set.
Verification(valid, matchedRecord, error, usage, noRecords) ==
    [valid |-> valid, matchedRecord |-> matchedRecord, error |-> error, usage |-> usage,
     noRecords |-> noRecords, threw |-> FALSE]
VerificationThrown ==
    [Verification(FALSE, NoRecord, "none", "none", FALSE) EXCEPT !.threw = TRUE]

\* The for loop over the chain for a trust-anchor record: "matched" at the
\* first certificate of the chain whose data is the association data,
\* "threw" when getCertData throws before that, else "none".
RECURSIVE MatchChain(_, _)
MatchChain(record, certChain) ==
    IF certChain = <<>> THEN "none"
    ELSE LET certData == getCertData(Head(certChain), record.selector)
         IN IF certData.threw THEN "threw"
            ELSE IF hashCertData(certData.data, record.mtype) # NoData
                    /\ hashCertData(certData.data, record.mtype) = record.cert
            THEN "matched"
            ELSE MatchChain(record, Tail(certChain))

\* verifyCertAgainstTlsa(cert, tlsaRecords, chain): the loop over the records
\* of a non-empty list for a certificate that is not null, and the return
\* after it.  certChain is empty when no chain is passed.
RECURSIVE MatchRecords(_, _, _)
MatchRecords(cert, records, certChain) ==
    IF records = <<>>
    THEN Verification(FALSE, NoRecord, "Certificate did not match any TLSA record", "none", FALSE)
    ELSE LET record == Head(records)
             isEE == record.usage \in {DANE_USAGE.DANE_EE, DANE_USAGE.PKIX_EE}
             isTA == record.usage \in {DANE_USAGE.DANE_TA, DANE_USAGE.PKIX_TA}
             certData == getCertData(cert, record.selector)
         IN IF record.cert = NoData THEN MatchRecords(cert, Tail(records), certChain)
            ELSE IF isEE /\ certData.threw THEN VerificationThrown
            ELSE IF isEE /\ hashCertData(certData.data, record.mtype) # NoData
                         /\ hashCertData(certData.data, record.mtype) = record.cert
            THEN Verification(TRUE, record, "none",
                              IF record.usage = DANE_USAGE.DANE_EE THEN "DANE-EE" ELSE "PKIX-EE",
                              FALSE)
            ELSE IF isTA /\ Len(certChain) > 0 /\ MatchChain(record, certChain) = "threw"
            THEN VerificationThrown
            ELSE IF isTA /\ Len(certChain) > 0 /\ MatchChain(record, certChain) = "matched"
            THEN Verification(TRUE, record, "none",
                              IF record.usage = DANE_USAGE.DANE_TA THEN "DANE-TA" ELSE "PKIX-TA",
                              FALSE)
            ELSE MatchRecords(cert, Tail(records), certChain)

verifyCertAgainstTlsa(cert, tlsaRecords, certChain) ==
    IF Len(tlsaRecords) = 0 THEN Verification(TRUE, NoRecord, "none", "none", TRUE)
    ELSE IF ~cert.present
    THEN Verification(FALSE, NoRecord, "No certificate provided", "none", FALSE)
    ELSE MatchRecords(cert, tlsaRecords, certChain)

\* createDaneVerifier(tlsaRecords, options): the closure.
createDaneVerifier(tlsaRecords, options) == [tlsaRecords |-> tlsaRecords, options |-> options]

\* The error the verifier returns.
DaneVerificationFailed ==
    [origin |-> "daneVerifier", idx |-> 0, category |-> "dane", temporary |-> Unset,
     response |-> Unset, code |-> "DANE_VERIFICATION_FAILED"]

\* What a call of the verifier does: it returns undefined (NoError) or an
\* error, or throws; logged are the messages given to options.logger.
Outcome(returned, threw, logged) == [returned |-> returned, threw |-> threw, logged |-> logged]

\* checkServerIdentity(hostname, cert) of the closure.
checkServerIdentity(verifier, cert) ==
    IF Len(verifier.tlsaRecords) = 0 THEN Outcome(NoError, FALSE, <<>>)
    ELSE LET res == verifyCertAgainstTlsa(cert, verifier.tlsaRecords, <<>>)
             options == verifier.options
         IN IF res.threw THEN Outcome(NoError, TRUE, <<>>)
            ELSE IF ~res.valid /\ ~res.noRecords
            THEN LET logged == IF options.logger THEN <<"DANE verification failed">> ELSE <<>>
                 IN IF options.verify # FALSE
                    THEN Outcome(DaneVerificationFailed, FALSE, logged)
                    ELSE Outcome(NoError, FALSE, logged)
            ELSE IF res.valid /\ res.matchedRecord # NoRecord /\ options.logger
            THEN Outcome(NoError, FALSE, <<"DANE verification succeeded">>)
            ELSE Outcome(NoError, FALSE, <<>>)

\* The records verifiers are built from: DANE-EE records for the SHA-256 of
\* the key of certificate 1 and of the DER form of certificate 2, a DANE-TA
\* record, and a record without association data.
VerifierRecords ==
    { Tlsa(3, 1, 1, Bytes("spki", "sha256", 1)), Tlsa(3, 0, 1, Bytes("der", "sha256", 2)),
      Tlsa(2, 1, 1, Bytes("spki", "sha256", 1)), Tlsa(3, 0, 0, NoData) }
VerifierRecordLists == UNION { [1..n -> VerifierRecords] : n \in 0..MaxTlsa }

\* The options verifiers are built with: dane.verify and whether there is a logger.
VerifierOptions == [verify : BOOLEAN, logger : BOOLEAN]

\* The certificates the TLS layer presents.
Certificates ==
    { NoCertificate, Certificate(1, "valid"), Certificate(2, "valid"),
      Certificate(1, "missing"), Certificate(1, "malformed") }

\* dane.createDaneVerifier(tlsaRecords, options) has been called.
InitVerifier ==
    /\ \E tlsaRecords \in VerifierRecordLists, options \in VerifierOptions :
          chain = [NoChain EXCEPT !.verifier = createDaneVerifier(tlsaRecords, options)]
    /\ delivery = buildDeliveryObject(Options(Name(1), <<>>, FALSE, FALSE, TRUE, FALSE))
    /\ mxHosts = <<>>
    /\ pc = "done"
    /\ index = 0
    /\ firstError = NoError
    /\ sockets = <<>>
    /\ log = <<>>
    /\ failures = <<>>
    /\ hookReplies = <<>>
    /\ result = [status |-> "pending", error |-> NoError, connection |-> NoConnection]

\* The TLS layer calls the verifier with the certificate of the peer.
CheckServerIdentity(cert) ==
    /\ Len(chain.tls) < MaxCalls
    /\ chain' = [chain EXCEPT !.tls = Append(@, [cert |-> cert,
                                                 outcome |-> checkServerIdentity(chain.verifier, cert)])]
    /\ UNCHANGED <<delivery, mxHosts, pc, index, firstError, sockets, log, failures,
                   hookReplies, result>>

NextVerifier == \E cert \in Certificates : CheckServerIdentity(cert)

SpecVerifier == InitVerifier /\ [][NextVerifier]_vars

\* The name of the hash of a matching type.
HashOf(mtype) == IF mtype = 1 THEN "sha256" ELSE IF mtype = 2 THEN "sha512" ELSE "none"

\* The record is an end-entity record whose association data is that of the
\* certificate.
Associated(cert, record) ==
    /\ record.usage \in {1, 3}
    /\ record.cert # NoData
    /\ cert.present
    /\ \/ /\ record.selector = 1
          /\ cert.publicKey = "valid"
          /\ record.cert = Bytes("spki", HashOf(record.mtype), cert.raw)
       \/ /\ record.selector # 1
          /\ record.cert = Bytes("der", HashOf(record.mtype), cert.raw)

NoMatchingRecord(cert, records) ==
    \A k \in 1..Len(records) : ~Associated(cert, records[k])

PolicyOptions ==
    { Options(target, [k \in 1..n |-> SuppliedEntry("resolved", k)], FALSE, mtaSts, FALSE, FALSE) :
        target \in {Name(1), UnicodeName(1)}, n \in 1..MaxMx, mtaSts \in BOOLEAN }

InitPolicy ==
    /\ \E options \in PolicyOptions :
          /\ delivery = buildDeliveryObject(options)
          /\ chain = [NoChain EXCEPT !.options = options,
                                     !.steps = buildPipeline(buildDeliveryObject(options)),
                                     !.step = 1, !.state = "ready"]
    /\ mxHosts = <<>>
    /\ pc = "chain"
    /\ index = 0
    /\ firstError = NoError
    /\ sockets = <<>>
    /\ log = <<>>
    /\ failures = <<>>
    /\ hookReplies = <<>>
    /\ result = [status |-> "pending", error |-> NoError, connection |-> NoConnection]

NextPolicy ==
    \/ FormatAddress
    \/ ResolvePolicy
    \/ \E knownPolicy \in Policies \cup {NoPolicy} : CacheGetReturns(knownPolicy)
    \/ \E policy \in Policies \cup {NoPolicy}, status \in PolicyStatuses :
          GetPolicyReturns(policy, status)
    \/ GetPolicyFails
    \/ CacheSetReturns
    \/ ValidateMxPolicy
    \/ GetConnection
    \/ NextMX
    \/ \E s \in UnsettledSockets : SocketConnect(s)
    \/ \E s \in UnsettledSockets : SocketError(s, NoCategory)

SpecPolicy == InitPolicy /\ [][NextPolicy]_vars

\* The calls of the policy stage, by function.
CallsOf(fn) == { i \in 1..Len(chain.calls) : chain.calls[i].fn = fn }

\* The domain the policy stage works for: the ASCII form of the target.
PolicyDomain == toASCII(chain.options.target)

\* C26: with mtaSts enabled the policy stage calls cache.get for
\* decodedDomain, then the fetcher for that domain with the policy the cache
\* returned, and once the fetcher has returned it calls cache.set for that
\* domain with the returned policy iff the status is not 'cached'; with
\* mtaSts disabled none of the three is called and no MX entry, candidate or
\* returned connection has a policyMatch.
C26_PolicyCache ==
    /\ \A i \in 1..Len(chain.calls) :
          /\ chain.options.mtaSts
          /\ chain.calls[i].domain = PolicyDomain
          /\ chain.calls[i].fn = <<"cache.get", "getPolicy", "cache.set">>[i]
    /\ Len(chain.calls) <= 3
    /\ Len(chain.calls) >= 2 =>
          /\ chain.calls[1].returned.status = "got"
          /\ chain.calls[2].policy = chain.calls[1].returned.policy
    /\ Len(chain.calls) >= 2 /\ chain.calls[2].returned.status \notin {"pending", "rejected"} =>
          /\ CallsOf("cache.set") # {} <=> chain.calls[2].returned.status # "cached"
          /\ \A i \in CallsOf("cache.set") : chain.calls[i].policy = chain.calls[2].returned.policy
    /\ Len(chain.calls) >= 2 /\ chain.calls[2].returned.status \in {"pending", "rejected"} =>
          CallsOf("cache.set") = {}
    /\ chain.options.mtaSts /\ chain.step > 2 => Len(chain.calls) >= 2
    /\ ~chain.options.mtaSts =>
          /\ chain.calls = <<>>
          /\ \A k \in 1..Len(delivery.mx) : delivery.mx[k].policyMatch = NoPolicyMatch
          /\ \A k \in 1..Len(mxHosts) : mxHosts[k].policyMatch = NoPolicyMatch
          /\ result.connection.policyMatch = NoPolicyMatch

\* With mtaSts enabled for an internationalized domain the fetcher returned
\* a policy with status 'found', which was stored, and the call returned a
\* connection that carries a policyMatch.
C26_Witness ==
    /\ chain.options.mtaSts
    /\ chain.options.target = UnicodeName(1)
    /\ Len(chain.calls) = 3
    /\ chain.calls[2].returned.status = "found"
    /\ chain.calls[3].returned.status = "set"
    /\ result.status = "resolved"
    /\ result.connection.policyMatch # NoPolicyMatch


(***************************************************************************)
(* mxConnect(options, callback): the callback                              *)
(***************************************************************************)

\* What a throwing callback throws.
CallbackThrown ==
    [origin |-> "callback", idx |-> 0, category |-> NoCategory, temporary |-> Unset,
     response |-> Unset, code |-> Unset]

\* One invocation of the callback: its arguments, and whether it threw.
Invocation(err, connection, threw) == [err |-> err, connection |-> connection, threw |-> threw]

\* promise.then(result => callback(null, result)): the handler runs once
\* the promise of the call has resolved; the callback returns or throws.
ThenCallback(throws) ==
    /\ chain.callback
    /\ pc = "done"
    /\ result.status = "resolved"
    /\ chain.callbacks = <<>>
    /\ chain' = [chain EXCEPT !.callbacks = <<Invocation(NoError, result.connection, throws)>>]
    /\ UNCHANGED <<delivery, mxHosts, pc, index, firstError, sockets, log, failures,
                   hookReplies, result>>

\* The error the promise promise.then(...) returned has rejected with, if
\* it has: the error of the call, or what the callback threw in the handler.
DerivedRejection ==
    IF result.status = "rejected" /\ chain.callbacks = <<>> THEN result.error
    ELSE IF Len(chain.callbacks) = 1 /\ chain.callbacks[1].err = NoError
            /\ chain.callbacks[1].threw
    THEN CallbackThrown
    ELSE NoError

\* .catch(callback): the callback is the rejection handler of the promise
\* then() returned.
CatchCallback(throws) ==
    /\ chain.callback
    /\ pc = "done"
    /\ DerivedRejection # NoError
    /\ chain' = [chain EXCEPT !.callbacks = Append(@, Invocation(DerivedRejection, NoConnection, throws))]
    /\ UNCHANGED <<delivery, mxHosts, pc, index, firstError, sockets, log, failures,
                   hookReplies, result>>

\* Calls with and without a callback, for a domain with 1..MaxMx supplied
\* entries and for a target the formatter rejects, with and without a hook.
CallbackOptions ==
    { Options(target, [k \in 1..n |-> SuppliedEntry("resolved", k)], FALSE, FALSE, FALSE, hook) :
        target \in {Name(1), Literal(NotAnAddress)}, n \in 1..MaxMx, hook \in BOOLEAN }

InitCallback ==
    /\ \E options \in CallbackOptions, callback \in BOOLEAN :
          /\ delivery = buildDeliveryObject(options)
          /\ chain = [NoChain EXCEPT !.options = options,
                                     !.steps = buildPipeline(buildDeliveryObject(options)),
                                     !.step = 1, !.state = "ready",
                                     !.callback = callback]
    /\ mxHosts = <<>>
    /\ pc = "chain"
    /\ index = 0
    /\ firstError = NoError
    /\ sockets = <<>>
    /\ log = <<>>
    /\ failures = <<>>
    /\ hookReplies = <<>>
    /\ result = [status |-> "pending", error |-> NoError, connection |-> NoConnection]

NextCallback ==
    \/ FormatAddress
    \/ ResolvePolicy
    \/ ValidateMxPolicy
    \/ GetConnection
    \/ NextMX
    \/ HookDone(NoError, FALSE)
    \/ \E s \in UnsettledSockets : SocketConnect(s)
    \/ \E s \in UnsettledSockets, category \in ErrorCategories : SocketError(s, category)
    \/ \E s \in UnsettledSockets : SocketTimeout(s)
    \/ \E throws \in BOOLEAN : ThenCallback(throws)
    \/ \E throws \in BOOLEAN : CatchCallback(throws)

SpecCallback == InitCallback /\ [][NextCallback]_vars

\* C27: a callback given to mxConnect is invoked at most once, whether it
\* returns or throws: with (null, connection) when the call succeeded, with
\* the error alone when it failed, and never with a success and with an
\* error for the same call.
C27_AsStated ==
    /\ Len(chain.callbacks) <= 1
    /\ \A i \in 1..Len(chain.callbacks) :
          IF result.status = "resolved"
          THEN /\ chain.callbacks[i].err = NoError
               /\ chain.callbacks[i].connection = result.connection
          ELSE /\ chain.callbacks[i].err = result.error
               /\ chain.callbacks[i].connection = NoConnection
    /\ ~\E i, j \in 1..Len(chain.callbacks) :
          chain.callbacks[i].err = NoError /\ chain.callbacks[j].err # NoError


(***************************************************************************)
(* Termination: calls whose lookups and hooks call back, with sockets      *)
(* that connect or stay silent until the maxConnectTime timer fires        *)
(***************************************************************************)

\* Calls for a domain to resolve, with 1..MaxMx supplied entries, and with
\* MAX_MX_HOSTS to MaxHosts supplied entries of one address each.
LiveOptions ==
    { Options(Name(1), mx, FALSE, mtaSts, dane, hook) :
        mx \in {<<>>} \cup { [k \in 1..n |-> SuppliedEntry(kind, k)] :
                               kind \in {"resolved", "name"}, n \in 1..MaxMx },
        mtaSts \in BOOLEAN, dane \in BOOLEAN, hook \in BOOLEAN }
    \cup { Options(Name(1), [k \in 1..n |-> SuppliedEntry("resolved", k)],
                   FALSE, FALSE, FALSE, hook) :
             n \in MAX_MX_HOSTS..MaxHosts, hook \in BOOLEAN }

\* The answers of the resolver to the MX lookup and to the lookups that
\* follow it for the domain.
LiveMxAnswers ==
    { Answer("MX", [k \in 1..n |-> MxRecord("ascending", k)], NoError) : n \in 0..MaxRecords }
    \cup { Answer("MX", <<>>, DnsError("ESERVFAIL")),
           Answer("A", <<Ip4(1)>>, NoError), Answer("A", <<>>, NoError),
           Answer("AAAA", <<>>, DnsError("ENODATA")) }

\* The answers to the A and AAAA lookups of the exchange of entry k.
LiveExchangeAnswers(k) ==
    { Answer("A", <<Ip4(k)>>, NoError), Answer("A", <<>>, LookupError("resolve4", k, "ESERVFAIL")),
      Answer("AAAA", <<>>, NoError) }

InitLive ==
    /\ \E options \in LiveOptions :
          /\ delivery = buildDeliveryObject(options)
          /\ chain = [NoChain EXCEPT !.options = options,
                                     !.steps = buildPipeline(buildDeliveryObject(options)),
                                     !.step = 1, !.state = "ready"]
    /\ mxHosts = <<>>
    /\ pc = "chain"
    /\ index = 0
    /\ firstError = NoError
    /\ sockets = <<>>
    /\ log = <<>>
    /\ failures = <<>>
    /\ hookReplies = <<>>
    /\ result = [status |-> "pending", error |-> NoError, connection |-> NoConnection]

\* The stages the event loop runs before and after getConnection, the
\* answers of the resolver, the policy fetcher, the TLSA resolver and the
\* hook, and the timers that fire.
LiveProgress ==
    \/ FormatAddress
    \/ ResolvePolicy
    \/ \E knownPolicy \in KnownPolicies : CacheGetReturns(knownPolicy)
    \/ \E policy \in Policies, status \in {"found", "cached"} : GetPolicyReturns(policy, status)
    \/ GetPolicyFails
    \/ CacheSetReturns
    \/ ResolveMX
    \/ \E answer \in LiveMxAnswers : ResolveMXAnswer(answer)
    \/ ValidateMxPolicy
    \/ ResolveIP
    \/ \E lookup \in chain.pending :
          \E answer \in LiveExchangeAnswers(lookup.k) : ResolveIPAnswer(lookup, answer)
    \/ ResolveDaneTlsa
    \/ \E lookup \in chain.pending :
          \E answer \in TlsaAnswers(lookup.k) : ResolveDaneTlsaAnswer(lookup, answer)
    \/ NextMX
    \/ \E err \in {NoError} \cup HookErrors(index), setSocket \in BOOLEAN : HookDone(err, setSocket)
    \/ \E s \in UnsettledSockets : SocketTimeout(s)

NextLive ==
    \/ LiveProgress
    \/ GetConnection
    \/ \E s \in UnsettledSockets : SocketConnect(s)

\* Every step that can be taken other than a connect event is eventually
\* taken: pending promise reactions run, lookups, fetches and hooks call
\* back, armed timers fire.  Nothing is assumed about connect events.
\* GetConnection is enabled exactly when pc = "init" and leaves that state,
\* so []<>(pc # "init") is WF_vars(GetConnection).
SpecLive ==
    InitLive /\ [][NextLive]_vars /\ WF_vars(LiveProgress) /\ []<>(pc # "init")


\* The candidates tryConnect has run for.
Attempts == { i \in 1..Len(mxHosts) : AttemptSeen(i) }

\* The smaller of two numbers.
Min(a, b) == IF a < b THEN a ELSE b

\* The distinct addresses of the entries of delivery.mx.
CandidateAddresses ==
    UNION { { delivery.mx[k].A[i] : i \in 1..Len(delivery.mx[k].A) }
            \cup { delivery.mx[k].AAAA[i] : i \in 1..Len(delivery.mx[k].AAAA) } :
            k \in 1..Len(delivery.mx) }

\* The attempts of the call are at most min(20, number of candidates), where
\* the candidates are the distinct addresses of the entries; and a timer
\* that has fired has left its attempt settled.
BoundedAttempts ==
    /\ Cardinality(Attempts) <= Min(20, Cardinality(CandidateAddresses))
    /\ Len(sockets) <= Min(20, Cardinality(CandidateAddresses))
    /\ \A s \in 1..Len(sockets) : sockets[s].timer = "fired" => sockets[s].settled

\* The call has settled: with a connection or with an error.
CallSettled ==
    \/ result.status = "resolved" /\ result.connection # NoConnection
    \/ result.status = "rejected" /\ result.error # NoError

\* C28: when every DNS lookup, policy fetch, TLSA lookup and connect hook
\* calls back, the call eventually settles with a connection or an error,
\* also when no socket ever emits connect or error: the try loop makes at
\* most min(20, number of candidates) attempts, and the timer of an attempt
\* settles it when it fires.
C28_EventuallySettles == []BoundedAttempts /\ <>CallSettled

\* A call with more than 20 candidates whose sockets all stayed silent: 20
\* attempts were made, each was settled by its timer, and the call was
\* rejected.
C28_Witness ==
    /\ Cardinality(CandidateAddresses) > 20
    /\ Len(sockets) = 20
    /\ \A s \in 1..Len(sockets) : sockets[s].outcome = "timeout"
    /\ result.status = "rejected"


(***************************************************************************)
(* Cancellation by the caller                                              *)
(***************************************************************************)

\* The call is suspended: a stage waits for a lookup or a fetch, or
\* tryConnect waits for the hook or for the socket.
Suspended ==
    /\ result.status = "pending"
    /\ \/ pc = "chain" /\ chain.state = "waiting"
       \/ pc \in {"hook", "tcp"}

\* The caller asks to cancel the call while it is suspended, for example by
\* aborting a signal it passed in the options.  mxConnect and its stages
\* read no such option and register nothing on it: the request changes
\* nothing in the call.
Cancel ==
    /\ Suspended
    /\ ~chain.cancelled
    /\ chain' = [chain EXCEPT !.cancelled = TRUE]
    /\ UNCHANGED <<delivery, mxHosts, pc, index, firstError, sockets, log, failures,
                   hookReplies, result>>

\* Calls for a domain to resolve and with 1..MaxMx supplied entries, with
\* MTA-STS on or off, with and without a hook.
CancelOptions ==
    { Options(Name(1), mx, FALSE, mtaSts, FALSE, hook) :
        mx \in {<<>>} \cup { [k \in 1..n |-> SuppliedEntry("resolved", k)] : n \in 1..MaxMx },
        mtaSts \in BOOLEAN, hook \in BOOLEAN }

InitCancel ==
    /\ \E options \in CancelOptions :
          /\ delivery = buildDeliveryObject(options)
          /\ chain = [NoChain EXCEPT !.options = options,
                                     !.steps = buildPipeline(buildDeliveryObject(options)),
                                     !.step = 1, !.state = "ready"]
    /\ mxHosts = <<>>
    /\ pc = "chain"
    /\ index = 0
    /\ firstError = NoError
    /\ sockets = <<>>
    /\ log = <<>>
    /\ failures = <<>>
    /\ hookReplies = <<>>
    /\ result = [status |-> "pending", error |-> NoError, connection |-> NoConnection]

NextCancel ==
    \/ FormatAddress
    \/ ResolvePolicy
    \/ \E knownPolicy \in KnownPolicies : CacheGetReturns(knownPolicy)
    \/ \E policy \in Policies, status \in {"found", "cached"} : GetPolicyReturns(policy, status)
    \/ CacheSetReturns
    \/ ResolveMX
    \/ \E answer \in LiveMxAnswers : ResolveMXAnswer(answer)
    \/ ValidateMxPolicy
    \/ ResolveIP
    \/ \E lookup \in chain.pending :
          \E answer \in LiveExchangeAnswers(lookup.k) : ResolveIPAnswer(lookup, answer)
    \/ GetConnection
    \/ NextMX
    \/ HookDone(NoError, FALSE)
    \/ \E s \in UnsettledSockets : SocketConnect(s)
    \/ \E s \in UnsettledSockets : SocketError(s, NoCategory)
    \/ Cancel

SpecCancel == InitCancel /\ [][NextCancel]_vars

\* C29: a call that the caller cancelled while it was suspended (in a DNS
\* lookup, the MTA-STS fetch, the connect hook or a TCP attempt) returns no
\* connection: when it has settled it has failed with an error and every
\* socket it opened is destroyed.
C29_AsStated ==
    chain.cancelled =>
        /\ result.status # "resolved"
        /\ pc = "done" =>
              /\ result.status = "rejected"
              /\ \A s \in 1..Len(sockets) : sockets[s].destroyed


(***************************************************************************)
(* Timers of the TCP attempts                                              *)
(***************************************************************************)

\* The maxConnectTime timer of the attempt on socket s is still pending.
TimerPending(s) == sockets[s].timer = "armed"

\* C30: an attempt that settled by a connect event or by a socket error has
\* its maxConnectTime timer cleared, no settled attempt has a pending timer,
\* and once the call has returned, resolved or rejected, no timer it started
\* is pending.
C30_TimersCleared ==
    /\ \A s \in 1..Len(sockets) :
          /\ sockets[s].outcome \in {"connected", "error"} => sockets[s].timer = "cleared"
          /\ sockets[s].settled => ~TimerPending(s)
    /\ pc = "done" => \A s \in 1..Len(sockets) : ~TimerPending(s)

\* A call that returned a connection after an earlier attempt failed with a
\* socket error: both attempts have their timers cleared.
C30_Witness ==
    /\ pc = "done"
    /\ result.status = "resolved"
    /\ \E s, t \in 1..Len(sockets) :
          /\ sockets[s].outcome = "error" /\ sockets[s].timer = "cleared"
          /\ sockets[t].outcome = "connected" /\ sockets[t].timer = "cleared"


(***************************************************************************)
(* The socket handed to the caller                                         *)
(***************************************************************************)

\* The call resolved with the socket of one of its own TCP attempts.
ReturnedTcpSocket ==
    /\ result.status = "resolved"
    /\ result.connection.socket.kind = "tcp"

\* C31: once a TCP attempt has succeeded and its socket has been handed to
\* the caller, the library does nothing more to that socket: whatever events
\* the socket emits afterwards, the library has not destroyed it.
C31_AsStated ==
    ReturnedTcpSocket => ~sockets[result.connection.socket.id].destroyed


(***************************************************************************)
(* The local address of the attempts                                       *)
(***************************************************************************)

\* The local addresses a caller supplies: none, one of either family that
\* is no target, or the address of the first candidate.
LocalAddresses == {NoAddress, Ip4(100), Ip6(100), Ip4(1)}
LocalAddressesIPv4 == {NoAddress, Ip4(101)}
LocalAddressesIPv6 == {NoAddress, Ip6(101)}

\* Calls over 1..MaxMx entries that each have an IPv4 and an IPv6 address, so
\* that the candidates alternate between the families, with every choice of
\* localAddress, localAddressIPv4 and localAddressIPv6.
LocalDeliveries ==
    { [mx |-> mx, ignoreMXHosts |-> {}, mxLastError |-> NoError,
       dnsOptions |-> [preferIPv6 |-> FALSE], port |-> DefaultPort,
       dane |-> NoDane, connectHook |-> FALSE, connectError |-> TRUE,
       localAddress |-> la, localAddressIPv4 |-> la4, localAddressIPv6 |-> la6] :
      mx \in { [k \in 1..n |-> MxEntry("dual", k, Priority("ascending", k), NoPolicyMatch, FALSE)] :
               n \in 1..MaxMx },
      la \in LocalAddresses, la4 \in LocalAddressesIPv4, la6 \in LocalAddressesIPv6 }

InitLocal ==
    /\ delivery \in LocalDeliveries
    /\ chain = [NoChain EXCEPT !.localAddress = delivery.localAddress]
    /\ mxHosts = <<>>
    /\ pc = "init"
    /\ index = 0
    /\ firstError = NoError
    /\ sockets = <<>>
    /\ log = <<>>
    /\ failures = <<>>
    /\ hookReplies = <<>>
    /\ result = [status |-> "pending", error |-> NoError, connection |-> NoConnection]

NextLocal ==
    \/ GetConnection
    \/ NextMX
    \/ \E s \in UnsettledSockets : SocketConnect(s)
    \/ \E s \in UnsettledSockets : SocketError(s, NoCategory)
    \/ \E s \in UnsettledSockets : SocketTimeout(s)

SpecLocal == InitLocal /\ [][NextLocal]_vars

\* The address the caller asked to bind to for a target: localAddress when it
\* is of the target's family, else the option of the target's family.
RequestedLocalAddress(host) ==
    IF chain.localAddress # NoAddress /\ chain.localAddress.family = host.family
    THEN chain.localAddress
    ELSE IF isIPv6(host) THEN delivery.localAddressIPv6 ELSE delivery.localAddressIPv4

\* The localAddress the claim expects in the connect options for a target.
ExpectedLocalAddress(host) ==
    IF RequestedLocalAddress(host) = host THEN NoAddress ELSE RequestedLocalAddress(host)

\* C32: every TCP attempt is made with the caller's localAddress when the
\* target is of its family, whatever was attempted before, with
\* localAddressIPv4/localAddressIPv6 when the target is of the other family,
\* and without a localAddress when that address is the target itself.
C32_AsStated ==
    \A p \in 1..Len(log) :
        log[p].ev = "connect" => log[p].localAddress = ExpectedLocalAddress(log[p].host)

\* The same for the attempts before which no candidate of the other family
\* than the caller's localAddress was tried.
C32_BeforeFamilySwitch ==
    \A p \in 1..Len(log) :
        (/\ log[p].ev = "connect"
         /\ \A q \in 1..(p - 1) :
               chain.localAddress # NoAddress => log[q].host.family = chain.localAddress.family)
        => log[p].localAddress = ExpectedLocalAddress(log[p].host)


(***************************************************************************)
(* The connectError notifications                                          *)
(***************************************************************************)

\* The positions in the log where connectError was called for candidate i.
ConnectErrors(i) == { p \in 1..Len(log) : log[p].ev = "connectError" /\ log[p].idx = i }

\* Candidate i failed, retryably or fatally.
FailedAs(i, fatal) == \E j \in 1..Len(failures) : failures[j].idx = i /\ failures[j].fatal = fatal

\* C33: connectError is called exactly once for each candidate that failed
\* retryably (refused by the MTA-STS gate or the DANE-lookup gate, socket
\* error, timeout), before anything is done for a later candidate, and is
\* not called for a candidate whose hook failed nor for the one that
\* connected.
C33_ConnectErrorOnce ==
    \A i \in 1..Len(mxHosts) :
        /\ Cardinality(ConnectErrors(i)) = IF FailedAs(i, FALSE) THEN 1 ELSE 0
        /\ FailedAs(i, TRUE) => ConnectErrors(i) = {}
        /\ result.status = "resolved" /\ result.connection.idx = i => ConnectErrors(i) = {}
        /\ \A p \in ConnectErrors(i) : \A q \in 1..Len(log) : log[q].idx > i => p < q

\* A candidate failed retryably and was reported once, and the call then
\* resolved with a later candidate, for which nothing was reported.
C33_Witness ==
    /\ pc = "done"
    /\ result.status = "resolved"
    /\ \E j \in 1..Len(failures) :
          /\ ~failures[j].fatal
          /\ Cardinality(ConnectErrors(failures[j].idx)) = 1
    /\ ConnectErrors(result.connection.idx) = {}


(***************************************************************************)
(* The order of the steps of one candidate                                 *)
(***************************************************************************)

\* The positions in the log of the calls of a kind made for candidate i.
Calls(ev, i) == { p \in 1..Len(log) : log[p].ev = ev /\ log[p].idx = i }

\* Candidate i was refused by the gate that raises errors of the given origin.
RefusedBy(origin, i) ==
    \E j \in 1..Len(failures) : failures[j].idx = i /\ failures[j].error.origin = origin

\* The hook has called back for candidate i without an error and without a socket.
HookPassed(i) ==
    \E r \in 1..Len(hookReplies) :
        hookReplies[r].idx = i /\ hookReplies[r].err = NoError /\ ~hookReplies[r].socket

\* C34: the steps of a candidate run in the order MTA-STS gate, DANE-lookup
\* gate, connect hook, TCP connect.  A candidate that both gates would refuse
\* fails with the policy error; the hook is called at most once for a
\* candidate, and neither hook nor connect happens for a candidate a gate
\* refused or would refuse; a connect is started at most once, and when a
\* hook is configured only after the hook was called for that candidate and
\* called back without an error.
C34_StepOrder ==
    \A i \in 1..Len(mxHosts) :
        /\ (AttemptSeen(i) /\ PolicyInvalidEnforced(i) /\ DaneLookupFailedVerified(i)) =>
              RefusedBy("policy", i) /\ ~RefusedBy("dane", i)
        /\ Cardinality(Calls("hook", i)) <= 1
        /\ Cardinality(Calls("connect", i)) <= 1
        /\ (RefusedBy("policy", i) \/ RefusedBy("dane", i)
            \/ PolicyInvalidEnforced(i) \/ DaneLookupFailedVerified(i)) =>
              Calls("hook", i) = {} /\ Calls("connect", i) = {}
        /\ ~delivery.connectHook => Calls("hook", i) = {}
        /\ \A p \in Calls("connect", i) :
              delivery.connectHook =>
                  /\ \E q \in Calls("hook", i) : q < p
                  /\ HookPassed(i)

\* With a hook configured, the first candidate was refused by the policy gate
\* although its TLSA lookup had failed too, and the second one got its hook
\* call, then its TCP connect.
C34_Witness ==
    /\ delivery.connectHook
    /\ Len(mxHosts) >= 2
    /\ PolicyInvalidEnforced(1) /\ DaneLookupFailedVerified(1)
    /\ RefusedBy("policy", 1)
    /\ Calls("hook", 2) # {} /\ Calls("connect", 2) # {}


(***************************************************************************)
(* Supplied addresses and IP resolution                                    *)
(***************************************************************************)

\* Entry k was supplied with an address list that is not empty.
SuppliedWithAddresses(k) ==
    SuppliedList(k, "A") # <<>> \/ SuppliedList(k, "AAAA") # <<>>

\* C35: when resolveIP has run over a supplied list, an entry that came with a
\* non-empty A or AAAA list holds exactly the addresses it came with, minus
\* those the address validator refuses: lookups fill only the other entries.
C35_AsStated ==
    (ResolveIPResolved \/ ResolveIPRejected) =>
        \A k \in 1..Len(delivery.mx) :
            (Len(chain.options.mx) > 0 /\ SuppliedWithAddresses(k)) =>
                /\ delivery.mx[k].A = SelectSeq(SuppliedList(k, "A"), Passes)
                /\ delivery.mx[k].AAAA = SelectSeq(SuppliedList(k, "AAAA"), Passes)


(***************************************************************************)
(* DANE on the returned connection                                         *)
(***************************************************************************)

\* The entry of delivery.mx the connected candidate was made from.
ConnectedEntries ==
    { k \in 1..Len(delivery.mx) :
        /\ delivery.mx[k].exchange = result.connection.hostname
        /\ \/ \E j \in 1..Len(delivery.mx[k].A) : delivery.mx[k].A[j] = result.connection.host
           \/ \E j \in 1..Len(delivery.mx[k].AAAA) : delivery.mx[k].AAAA[j] = result.connection.host }

\* DANE is enabled for the call and the connected candidate's entry has a TLSA record.
DaneApplies ==
    /\ delivery.dane.present /\ delivery.dane.enabled
    /\ \E k \in ConnectedEntries : Len(delivery.mx[k].tlsaRecords) > 0

\* C36: the connection a call resolves with has daneEnabled = true,
\* requireTls = true and a daneVerifier exactly when dane.enabled is true and
\* the MX entry of the connected candidate has at least one TLSA record;
\* otherwise none of the three is set.
C36_DaneOnConnection ==
    result.status = "resolved" =>
        /\ ConnectedEntries # {}
        /\ IF DaneApplies
           THEN /\ result.connection.daneEnabled
                /\ result.connection.requireTls
                /\ result.connection.daneVerifier.present
                /\ result.connection.daneVerifier.tlsaRecords = result.connection.tlsaRecords
                /\ Len(result.connection.tlsaRecords) > 0
           ELSE /\ ~result.connection.daneEnabled
                /\ ~result.connection.requireTls
                /\ ~result.connection.daneVerifier.present

\* Witness: a call with DANE enabled resolved on a candidate whose TLSA
\* lookup returned a record, after a candidate without records had failed.
C36_Witness ==
    /\ result.status = "resolved"
    /\ DaneApplies
    /\ result.connection.daneVerifier.present
    /\ Len(failures) > 0


(***************************************************************************)
(* dane.js: verifyCertAgainstTlsa                                          *)
(***************************************************************************)

\* The records of the lists verified against: end-entity records (DANE-EE with
\* the SHA-256 of the key of certificate 1, PKIX-EE with the SHA-256 of the
\* DER form of certificate 1, DANE-EE for certificate 2), trust-anchor
\* records (DANE-TA and PKIX-TA for certificate 3), and a record without
\* association data.
VerifiedRecords ==
    { Tlsa(3, 1, 1, Bytes("spki", "sha256", 1)), Tlsa(1, 0, 1, Bytes("der", "sha256", 1)),
      Tlsa(3, 0, 1, Bytes("der", "sha256", 2)),
      Tlsa(2, 0, 1, Bytes("der", "sha256", 3)), Tlsa(0, 1, 1, Bytes("spki", "sha256", 3)),
      Tlsa(3, 0, 0, NoData) }
VerifiedRecordLists == UNION { [1..n -> VerifiedRecords] : n \in 0..MaxTlsa }

\* The certificates presented, all well formed, and the chains passed: none,
\* or one that holds certificate 3.
VerifiedCertificates == { NoCertificate, Certificate(1, "valid"), Certificate(2, "valid") }
CertificateChains == { <<>>, <<Certificate(3, "valid")>> }

\* A list of TLSA records is at hand.
InitVerify ==
    /\ \E tlsaRecords \in VerifiedRecordLists :
          chain = [NoChain EXCEPT !.verifier.tlsaRecords = tlsaRecords]
    /\ delivery = buildDeliveryObject(Options(Name(1), <<>>, FALSE, FALSE, TRUE, FALSE))
    /\ mxHosts = <<>>
    /\ pc = "done"
    /\ index = 0
    /\ firstError = NoError
    /\ sockets = <<>>
    /\ log = <<>>
    /\ failures = <<>>
    /\ hookReplies = <<>>
    /\ result = [status |-> "pending", error |-> NoError, connection |-> NoConnection]

\* dane.verifyCertAgainstTlsa(cert, tlsaRecords, chain) is called.
VerifyCertAgainstTlsa(cert, certChain) ==
    /\ Len(chain.verifications) < MaxCalls
    /\ chain' = [chain EXCEPT !.verifications =
                    Append(@, [cert |-> cert, chain |-> certChain,
                               result |-> verifyCertAgainstTlsa(cert, chain.verifier.tlsaRecords,
                                                                certChain)])]
    /\ UNCHANGED <<delivery, mxHosts, pc, index, firstError, sockets, log, failures,
                   hookReplies, result>>

NextVerify ==
    \E cert \in VerifiedCertificates, certChain \in CertificateChains :
        VerifyCertAgainstTlsa(cert, certChain)

SpecVerify == InitVerify /\ [][NextVerify]_vars

\* The record matches: an end-entity record associated with the certificate,
\* or a trust-anchor record associated with a certificate of the chain.
RecordMatches(cert, certChain, record) ==
    \/ Associated(cert, record)
    \/ /\ record.usage \in {0, 2}
       /\ \E c \in 1..Len(certChain) :
             Associated(certChain[c], [record EXCEPT !.usage = 3])

\* The label of a usage.
UsageLabel(usage) ==
    IF usage = 0 THEN "PKIX-TA" ELSE IF usage = 1 THEN "PKIX-EE"
    ELSE IF usage = 2 THEN "DANE-TA" ELSE "DANE-EE"

\* The result names a missing certificate chain as the reason.
MentionsChain(error) ==
    error \in { "TLSA record with usage 0 (PKIX-TA) requires certificate chain which is not available",
                "TLSA record with usage 2 (DANE-TA) requires certificate chain which is not available" }

C37_FirstMatch ==
    \A i \in 1..Len(chain.verifications) :
        LET v == chain.verifications[i]
            records == chain.verifier.tlsaRecords
            matching == { k \in 1..Len(records) : RecordMatches(v.cert, v.chain, records[k]) }
        IN (records # <<>> /\ v.cert.present) =>
              /\ ~v.result.threw
              /\ IF matching # {}
                 THEN LET first == CHOOSE k \in matching : \A l \in matching : k <= l
                      IN /\ v.result.valid
                         /\ v.result.matchedRecord = records[first]
                         /\ v.result.usage = UsageLabel(records[first].usage)
                 ELSE /\ ~v.result.valid
                      /\ v.result.error # "none"


(***************************************************************************)
(* The connection a call resolves with                                     *)
(***************************************************************************)

\* Calls for a domain to resolve or with 1..MaxMx supplied entries, with
\* MTA-STS on or off, with and without a hook, on the default port or on
\* another one.
ConnectOptionsOfCalls ==
    CancelOptions \cup { WithPort(o, SubmissionPort) : o \in CancelOptions }

InitConnect ==
    /\ \E options \in ConnectOptionsOfCalls :
          /\ delivery = buildDeliveryObject(options)
          /\ chain = [NoChain EXCEPT !.options = options,
                                     !.steps = buildPipeline(buildDeliveryObject(options)),
                                     !.step = 1, !.state = "ready"]
    /\ mxHosts = <<>>
    /\ pc = "chain"
    /\ index = 0
    /\ firstError = NoError
    /\ sockets = <<>>
    /\ log = <<>>
    /\ failures = <<>>
    /\ hookReplies = <<>>
    /\ result = [status |-> "pending", error |-> NoError, connection |-> NoConnection]

NextConnect ==
    \/ FormatAddress
    \/ ResolvePolicy
    \/ \E knownPolicy \in KnownPolicies : CacheGetReturns(knownPolicy)
    \/ \E policy \in Policies, status \in {"found", "cached"} : GetPolicyReturns(policy, status)
    \/ CacheSetReturns
    \/ ResolveMX
    \/ \E answer \in LiveMxAnswers : ResolveMXAnswer(answer)
    \/ ValidateMxPolicy
    \/ ResolveIP
    \/ \E lookup \in chain.pending :
          \E answer \in LiveExchangeAnswers(lookup.k) : ResolveIPAnswer(lookup, answer)
    \/ GetConnection
    \/ NextMX
    \/ \E err \in HookErrors(index) \cup {NoError}, setSocket \in BOOLEAN : HookDone(err, setSocket)
    \/ \E s \in UnsettledSockets : SocketConnect(s)
    \/ \E s \in UnsettledSockets : SocketError(s, NoCategory)
    \/ \E s \in UnsettledSockets : SocketTimeout(s)

SpecConnect == InitConnect /\ [][NextConnect]_vars

\* The port the caller configured, 25 when none was.
ConfiguredPort == IF chain.options.port = NoPort THEN 25 ELSE chain.options.port

\* Candidate i got through both gates, its hook and its connect.
Succeeded(i) ==
    /\ ~PolicyInvalidEnforced(i)
    /\ ~DaneLookupFailedVerified(i)
    /\ ~FailedAs(i, FALSE) /\ ~FailedAs(i, TRUE)
    /\ delivery.connectHook =>
          \E r \in 1..Len(hookReplies) : hookReplies[r].idx = i /\ hookReplies[r].err = NoError
    /\ \/ \E r \in 1..Len(hookReplies) : hookReplies[r].idx = i /\ hookReplies[r].socket
       \/ \E s \in 1..Len(sockets) : sockets[s].idx = i /\ sockets[s].outcome = "connected"

\* C38: a call that resolved returns the first candidate, in the order of the
\* sorted list, for which gates, hook and connect all succeeded: every
\* candidate before it failed and was passed over, none after it was
\* attempted, host is the candidate's address, hostname the exchange of the
\* MX entry the address belongs to, and port the configured port, 25 by default.
C38_FirstSuccess ==
    result.status = "resolved" =>
        LET i == result.connection.idx
        IN /\ i \in 1..Len(mxHosts)
           /\ Succeeded(i)
           /\ \A j \in 1..(i - 1) : FailedAs(j, FALSE) /\ ~Succeeded(j)
           /\ \A j \in (i + 1)..Len(mxHosts) : ~AttemptSeen(j)
           /\ result.connection.host = mxHosts[i].host
           /\ result.connection.port = ConfiguredPort
           /\ \E k \in 1..Len(delivery.mx) :
                 /\ delivery.mx[k].exchange = result.connection.hostname
                 /\ result.connection.hostname.family = "name"
                 /\ \/ \E a \in 1..Len(delivery.mx[k].A) : delivery.mx[k].A[a] = result.connection.host
                    \/ \E a \in 1..Len(delivery.mx[k].AAAA) :
                          delivery.mx[k].AAAA[a] = result.connection.host

\* Witness: on a port other than 25 and with a hook, the call resolved with
\* its second candidate after the first one had failed.
C38_Witness ==
    /\ result.status = "resolved"
    /\ result.connection.idx = 2
    /\ result.connection.port = SubmissionPort
    /\ delivery.connectHook
    /\ FailedAs(1, FALSE)

====
